---- MODULE Spec2Model ----
(***************************************************************************)
(* Lease-based backfill work queue of the migration console                *)
(* (console_link/db/backfill_work_db.py, console_link/api/backfill.py,     *)
(* console_link/models/backfill_work_item.py) and the worker-count         *)
(* commands of the RFS backfill (console_link/models/backfill_rfs.py).     *)
(*                                                                         *)
(* Timestamps are instants of an integer clock `now`; the queries of the   *)
(* store compare ISO-8601 renderings of UTC instants, whose string order   *)
(* is the chronological order.  SpecConc takes one call of the TinyDB     *)
(* table (get, search, update) as one atomic step; the other               *)
(* specifications take a whole operation as one step.  Further parts: the  *)
(* sessions table under its lock (console_link/db/session_db.py) and the   *)
(* start/stop guards of the backfill service                               *)
(* (console_link/services/backfill_service.py).                            *)
(***************************************************************************)
EXTENDS Integers, Sequences, FiniteSets, TLC

\* ---------------------------------------------------------------- bounds
MaxTime == 2

\* ------------------------------------------------------------- constants
DefaultScale == 5
NoTime == -1
NoWorker == "none"

\* the working-state index with its documents; the index that does not exist
Index(docs) == [ exists |-> TRUE, docs |-> docs ]

NoIndex == [ exists |-> FALSE, docs |-> {} ]

\* the backup file with the documents written to it; no backup file
Backup(docs) == [ written |-> TRUE, docs |-> docs ]

NoBackup == [ written |-> FALSE, docs |-> {} ]

Sessions == {"s1"}
Workers == {"w1", "w2"}
Threads == {"t1", "t2"}
LeaseDurations == {1, 2}
Scales == {0, 1}

\* CreateWorkItemRequest bodies the callers send
CreateWorkItemRequests ==
    { [work_item_id |-> "A", index_name |-> "idx", shard_number |-> 0,
       document_count |-> 10, total_size_bytes |-> 100],
      [work_item_id |-> "B", index_name |-> "idx", shard_number |-> 1,
       document_count |-> 20, total_size_bytes |-> 200] }

WorkItemIds == { r.work_item_id : r \in CreateWorkItemRequests }

\* ProgressUpdate bodies of a lease renewal; <<>> is "no progress supplied"
NoProgress == <<>>

ProgressUpdates ==
    { NoProgress,
      << [documents_processed |-> 5, bytes_processed |-> 50] >>,
      << [documents_processed |-> 2, bytes_processed |-> 20] >> }

VARIABLES
    now,      \* datetime.now(timezone.utc)
    table,    \* _work_items_table: the rows in insertion order
    result,   \* the call that acted last: its arguments and outcome
    leases,   \* the leases handed to workers by acquire/renew and not given back
    thr,      \* request handlers in flight between two table calls
    desired,  \* desired worker count of the deployment
    alive,    \* the workers that still call the queue
    index,    \* the working-state index of the target cluster: its documents
    backup,   \* the backup file of the working-state index
    sessions, \* _sessions_table: the session names in insertion order
    entity    \* the BackfillEntity the backfill service works on

vars == <<now, table, result, leases, thr, desired, alive, index, backup, sessions,
         entity>>

\* ------------------------------------------------------------ work items

\* BackfillWorkItem(...) as built by the create endpoint; created_at, which no
\* operation reads or writes again, is left out of the rows
BackfillWorkItem(session_name, request) ==
    [ work_item_id |-> request.work_item_id,
      session_name |-> session_name,
      status |-> "pending",
      index_name |-> request.index_name,
      shard_number |-> request.shard_number,
      document_count |-> request.document_count,
      total_size_bytes |-> request.total_size_bytes,
      worker_id |-> NoWorker,
      lease_expiry |-> NoTime,
      documents_processed |-> 0,
      bytes_processed |-> 0,
      last_progress_update |-> NoTime,
      started_at |-> NoTime,
      completed_at |-> NoTime ]

\* variant: a grace period of one clock unit after the expiry
is_lease_expired_Grace(item, t) ==
    IF item.lease_expiry = NoTime THEN FALSE ELSE t > item.lease_expiry + 1

\* BackfillWorkItem.is_lease_expired at instant t
is_lease_expired(item, t) ==
    IF item.lease_expiry = NoTime THEN FALSE ELSE t > item.lease_expiry

\* variant: the composite key cut down to the work item id
KeyMatches_IdOnly(row, session_name, work_item_id) ==
    row.work_item_id = work_item_id

\* the composite-key condition of find_work_item / update_work_item
KeyMatches(row, session_name, work_item_id) ==
    row.session_name = session_name /\ row.work_item_id = work_item_id

\* find_work_item: table.get gives the first matching row; <<>> is None
find_work_item(tbl, session_name, work_item_id) ==
    LET hits == SelectSeq(tbl, LAMBDA row : KeyMatches(row, session_name, work_item_id))
    IN  IF hits = <<>> THEN <<>> ELSE <<hits[1]>>

\* update_work_item: table.update writes every field of the model into every
\* row with the item's composite key
update_count(tbl, item) ==
    Cardinality({ i \in DOMAIN tbl :
                    KeyMatches(tbl[i], item.session_name, item.work_item_id) })

update_work_item(tbl, item) ==
    [ i \in DOMAIN tbl |->
        IF KeyMatches(tbl[i], item.session_name, item.work_item_id)
        THEN item ELSE tbl[i] ]

\* variant: the search takes pending rows only
IsAvailable_PendingOnly(row, session_name, current_time) ==
    /\ row.session_name = session_name
    /\ row.status = "pending"

\* variant: an off-by-one in the search: a lease that ends now counts as expired
IsAvailable_AtExpiry(row, session_name, current_time) ==
    /\ row.session_name = session_name
    /\ \/ row.status = "pending"
       \/ row.status = "assigned" /\ row.lease_expiry <= current_time

\* the search condition of acquire_next_work_item
IsAvailable(row, session_name, current_time) ==
    /\ row.session_name = session_name
    /\ \/ row.status = "pending"
       \/ row.status = "assigned" /\ row.lease_expiry < current_time

available_items(tbl, session_name, current_time) ==
    SelectSeq(tbl, LAMBDA row : IsAvailable(row, session_name, current_time))

\* variant: the lease is counted from the row's previous expiry when it has one
AcquireItem_FromOldExpiry(item, worker_id, lease_duration_seconds, current_time) ==
    [ item EXCEPT
        !.status = "assigned",
        !.worker_id = worker_id,
        !.lease_expiry = IF item.lease_expiry = NoTime
                         THEN current_time + lease_duration_seconds
                         ELSE item.lease_expiry + lease_duration_seconds,
        !.started_at = IF item.started_at = NoTime THEN current_time
                       ELSE item.started_at ]

\* the lease fields acquire_next_work_item writes into the row it takes
AcquireItem(item, worker_id, lease_duration_seconds, current_time) ==
    [ item EXCEPT
        !.status = "assigned",
        !.worker_id = worker_id,
        !.lease_expiry = current_time + lease_duration_seconds,
        !.started_at = IF item.started_at = NoTime THEN current_time
                       ELSE item.started_at ]

\* variant: every renewal stamps last_progress_update, progress supplied or not
RenewItem_StampAlways(item, lease_duration_seconds, progress, current_time) ==
    IF progress = NoProgress
    THEN [ item EXCEPT !.lease_expiry = current_time + lease_duration_seconds,
                       !.last_progress_update = current_time ]
    ELSE [ item EXCEPT
             !.lease_expiry = current_time + lease_duration_seconds,
             !.documents_processed = progress[1].documents_processed,
             !.bytes_processed = progress[1].bytes_processed,
             !.last_progress_update = current_time ]

\* the fields renew_lease writes
RenewItem(item, lease_duration_seconds, progress, current_time) ==
    IF progress = NoProgress
    THEN [ item EXCEPT !.lease_expiry = current_time + lease_duration_seconds ]
    ELSE [ item EXCEPT
             !.lease_expiry = current_time + lease_duration_seconds,
             !.documents_processed = progress[1].documents_processed,
             !.bytes_processed = progress[1].bytes_processed,
             !.last_progress_update = current_time ]

\* the fields complete_work_item writes
CompleteItem(item, current_time) ==
    [ item EXCEPT
        !.status = "completed",
        !.completed_at = current_time,
        !.lease_expiry = NoTime ]

\* variant: the expiry of the lease is checked before its owner
LeaseCheck_ExpiryFirst(found, worker_id, t) ==
    IF found = <<>> THEN "WorkItemNotFound"
    ELSE IF found[1].lease_expiry # NoTime /\ t > found[1].lease_expiry THEN "LeaseExpired"
    ELSE IF found[1].worker_id # worker_id THEN "LeaseNotOwnedByWorker"
    ELSE "ok"

\* the checks renew_lease and complete_work_item make on the row they found
LeaseCheck(found, worker_id, t) ==
    IF found = <<>> THEN "WorkItemNotFound"
    ELSE IF found[1].worker_id # worker_id THEN "LeaseNotOwnedByWorker"
    ELSE IF is_lease_expired(found[1], t) THEN "LeaseExpired"
    ELSE "ok"

\* variant: an off-by-one in the search of cleanup, a lease that ends now counts
\* as expired
IsExpiredLease_AtExpiry(row, session_name, current_time) ==
    /\ row.session_name = session_name
    /\ row.status = "assigned"
    /\ row.lease_expiry <= current_time

\* variant: the search of cleanup looks at the rows of every session
IsExpiredLease_AnySession(row, session_name, current_time) ==
    /\ row.status = "assigned"
    /\ row.lease_expiry < current_time

\* the search condition of cleanup_expired_leases
IsExpiredLease(row, session_name, current_time) ==
    /\ row.session_name = session_name
    /\ row.status = "assigned"
    /\ row.lease_expiry < current_time

expired_items(tbl, session_name, current_time) ==
    SelectSeq(tbl, LAMBDA row : IsExpiredLease(row, session_name, current_time))

\* variant: cleanup clears the owner and leaves status and lease_expiry
ResetItem_WorkerOnly(item) ==
    [ item EXCEPT !.worker_id = NoWorker ]

\* the fields cleanup_expired_leases writes
ResetItem(item) ==
    [ item EXCEPT !.status = "pending", !.worker_id = NoWorker, !.lease_expiry = NoTime ]

\* the loop of cleanup_expired_leases over the rows its search returned
RECURSIVE CleanupLoop(_, _)
CleanupLoop(tbl, items) ==
    IF items = <<>> THEN tbl
    ELSE CleanupLoop(update_work_item(tbl, ResetItem(Head(items))), Tail(items))

\* ------------------------------------- status from the working-state index

\* a float, kept exact as a fraction with a positive denominator
Rat(n, d) == [ num |-> n, den |-> d ]

RatEq(a, b) == a.num * b.den = b.num * a.den

RatLess(a, b) == a.num * b.den < b.num * a.den

RatSub(a, b) == Rat(a.num * b.den - b.num * a.den, a.den * b.den)

RatMul(a, b) == Rat(a.num * b.num, a.den * b.den)

\* a / b for b > 0
RatDiv(a, b) == Rat(a.num * b.den, a.den * b.num)

\* the _id of the sentinel document: "shard_setup"
ShardSetupId == << "s", "h", "a", "r", "d", "_", "s", "e", "t", "u", "p" >>

\* the _id of a work item: index "i", "__", shard number, "__", attempt number
WorkItemDocId(shard, attempt) == << "i", "_", "_", shard, "_", "_", attempt >>

\* a document of the working-state index; completedAt = NoTime is "no such field"
Doc(id, completedAt, expiration, successor_items) ==
    [ id |-> id, completedAt |-> completedAt, expiration |-> expiration,
      successor_items |-> successor_items ]

\* String.indexOf("__", from) of the painless script: a position counted from
\* 0, or -1
IndexOf(id, from) ==
    LET at == { k \in from..(Len(id) - 2) : id[k + 1] = "_" /\ id[k + 2] = "_" }
    IN  IF at = {} THEN -1 ELSE CHOOSE k \in at : \A other \in at : k <= other

\* String.substring(begin, end), positions counted from 0
Substring(id, begin, end) == SubSeq(id, begin + 1, end)

\* EXTRACT_UNIQUE_INDEX_SHARD_SCRIPT on one _id; <<>> when the script returns
\* nothing
UniqueIndexShard(id) ==
    LET a == IndexOf(id, 0)
        b == IndexOf(id, a + 2)
    IN  IF a > -1 /\ b > -1
        THEN << Substring(id, 0, a) \o << "_", "_" >> \o Substring(id, a + 2, b) >>
        ELSE <<>>

IsShardSetup(doc) == doc.id = ShardSetupId

HasCompletedAt(doc) == doc.completedAt # NoTime

\* the filters of generate_status_queries, as the cluster evaluates them on a
\* document at current_epoch_seconds
StatusQueryKeys == { "total", "completed", "incomplete", "in progress", "unclaimed" }

StatusQueryMatches(key, doc, current_epoch_seconds) ==
    CASE key = "total" ->
            ~IsShardSetup(doc) /\ ~doc.successor_items
      [] key = "completed" ->
            HasCompletedAt(doc) /\ ~IsShardSetup(doc) /\ ~doc.successor_items
      [] key = "incomplete" ->
            ~HasCompletedAt(doc) /\ ~IsShardSetup(doc)
      [] key = "in progress" ->
            /\ doc.expiration >= current_epoch_seconds
            /\ ~HasCompletedAt(doc) /\ ~IsShardSetup(doc)
      [] key = "unclaimed" ->
            /\ doc.expiration < current_epoch_seconds
            /\ ~HasCompletedAt(doc) /\ ~IsShardSetup(doc)

\* the response to a with_uniques query: size 0, so the hits are only counted,
\* and the cardinality of the script's values over the matching documents
SearchResponse(docs, key, current_epoch_seconds) ==
    LET matching == { doc \in docs : StatusQueryMatches(key, doc, current_epoch_seconds) }
    IN  [ hits_total |-> Cardinality(matching),
          unique_pair_count |->
              Cardinality({ UniqueIndexShard(doc.id) : doc \in matching } \ { <<>> }) ]

\* variant: the count is read from the unique_pair_count aggregation
parse_query_response_Uniques(docs, key, current_epoch_seconds) ==
    SearchResponse(docs, key, current_epoch_seconds).unique_pair_count

\* parse_query_response(query, cluster, index_name, label)
parse_query_response(docs, key, current_epoch_seconds) ==
    SearchResponse(docs, key, current_epoch_seconds).hits_total

\* _get_shard_setup_started_epoch: completedAt of the shard_setup document
get_shard_setup_started_epoch(docs) ==
    LET setup == { doc \in docs : IsShardSetup(doc) }
    IN  IF \E doc \in setup : doc.completedAt > 0
        THEN (CHOOSE doc \in setup : TRUE).completedAt
        ELSE NoTime

\* _get_max_completed_epoch: the greatest completedAt over all documents
get_max_completed_epoch(docs) ==
    LET values == { doc.completedAt : doc \in { d \in docs : HasCompletedAt(d) } }
        val == CHOOSE v \in values : \A other \in values : v >= other
    IN  IF values # {} /\ val > 0 THEN val ELSE NoTime

\* variant: the elapsed time is not kept above a millisecond
ElapsedMs_Unclamped(started_epoch, t) == (t - started_epoch) * 1000

\* max(now - started_epoch, 0.001) of _estimate_eta_ms_from_shards, in
\* milliseconds
ElapsedMs(started_epoch, t) ==
    IF (t - started_epoch) * 1000 > 1 THEN (t - started_epoch) * 1000 ELSE 1

\* _estimate_eta_ms_from_shards(started_epoch, pct) at instant t; <<>> is None
estimate_eta_ms_from_shards(started_epoch, pct, t) ==
    IF started_epoch = NoTime \/ started_epoch = 0 THEN <<>>
    ELSE IF ~RatLess(Rat(0, 1), pct) \/ ~RatLess(pct, Rat(100, 1)) THEN <<>>
    ELSE LET remaining_factor == RatDiv(RatSub(Rat(100, 1), pct), pct)
         IN  << RatMul(Rat(ElapsedMs(started_epoch, t), 1), remaining_factor) >>

\* variant: a backfill without active workers is reported as running
DerivedState_AlwaysRunning(active_workers) == "Running"

\* the state of a backfill that is not complete
DerivedState(active_workers) == IF active_workers THEN "Running" ELSE "Paused"

\* compute_dervived_values(target_cluster, index_to_check, total, completed,
\* started_epoch, active_workers) at instant t
compute_dervived_values(docs, total, completed, started_epoch, active_workers, t) ==
    IF total = 0 \/ (total > 0 /\ completed >= total)
    THEN LET max_completed_epoch == get_max_completed_epoch(docs)
         IN  [ finished |-> IF max_completed_epoch # NoTime THEN max_completed_epoch ELSE t,
               percentage_completed |-> Rat(100, 1),
               eta_ms |-> <<>>,
               status |-> "Completed" ]
    ELSE LET percentage_completed ==
                 IF total > 0 THEN RatMul(Rat(completed, total), Rat(100, 1)) ELSE Rat(0, 1)
         IN  [ finished |-> NoTime,
               percentage_completed |-> percentage_completed,
               eta_ms |-> IF active_workers
                          THEN estimate_eta_ms_from_shards(started_epoch,
                                                           percentage_completed, t)
                          ELSE <<>>,
               status |-> DerivedState(active_workers) ]

\* Cluster.call_api("/" + index): the cluster answers a request about an index
\* that does not exist with an error, which call_api raises
call_api_index(idx) == IF idx.exists THEN "200" ELSE "HTTPError"

\* variant: the status is computed without looking for the index first
IndexCheck_Skipped(idx) == "ok"

\* the precondition of get_detailed_status_obj: a request for the index that
\* raises becomes DeepStatusNotYetAvailable
IndexCheck(idx) ==
    IF call_api_index(idx) = "HTTPError" THEN "DeepStatusNotYetAvailable" ELSE "ok"

\* the sets of counting queries whose request may fail
QueryFaults == SUBSET StatusQueryKeys

\* the values of get_detailed_status_obj: parse_query_response gives None,
\* here <<>>, for a query whose request raises
QueryValue(docs, key, t, failed) ==
    IF key \in failed THEN <<>> ELSE << parse_query_response(docs, key, t) >>

\* values.get(key, 0) or 0
OrZero(value) == IF value = <<>> THEN 0 ELSE value[1]

\* get_detailed_status_obj(target_cluster, active_workers, session_name) at t
\* when the requests of the counting queries in `failed` raise; a counting
\* query that fails counts as 0
detailed_status_obj(idx, active_workers, t, failed) ==
    IF IndexCheck(idx) # "ok"
    THEN [ out |-> "DeepStatusNotYetAvailable", queries |-> {}, ret |-> <<>> ]
    ELSE LET values == [ key \in StatusQueryKeys |->
                            OrZero(QueryValue(idx.docs, key, t, failed)) ]
             started_epoch == get_shard_setup_started_epoch(idx.docs)
             derived == compute_dervived_values(idx.docs, values["total"],
                                                values["completed"],
                                                started_epoch, active_workers, t)
         IN  [ out |-> "ok",
               queries |-> StatusQueryKeys,
               ret |-> << [ status |-> derived.status,
                            percentage_completed |-> derived.percentage_completed,
                            eta_ms |-> derived.eta_ms,
                            started |-> started_epoch,
                            finished |-> derived.finished,
                            shard_total |-> values["total"],
                            shard_complete |-> values["completed"],
                            shard_in_progress |-> values["in progress"],
                            shard_waiting |-> values["unclaimed"] ] >> ]

\* get_detailed_status_obj when every counting query is answered
get_detailed_status_obj(idx, active_workers, t) ==
    detailed_status_obj(idx, active_workers, t, {})

\* DeploymentStatus, the fields perform_archive reads
DeploymentStatus(running, pending, desired_count) ==
    [ running |-> running, pending |-> pending, desired |-> desired_count ]

\* variant: only running workers keep the index from being archived
WorkersInProgress_RunningOnly(deployment_status) == deployment_status.running > 0

\* the guard of perform_archive
WorkersInProgress(deployment_status) ==
    \/ deployment_status.running > 0
    \/ deployment_status.pending > 0
    \/ deployment_status.desired > 0

\* the requests of an archive that the cluster may answer with an error of its
\* own while the index is there
ArchiveFaults == { "none", "fetch_all_documents", "delete" }

\* Cluster.fetch_all_documents(index) under a fault: the documents, or an
\* HTTPError with the status the cluster gave, 404 for an index that is absent
fetch_all_documents(idx, fault) ==
    IF ~idx.exists THEN [ out |-> "HTTPError", status_code |-> 404, docs |-> {} ]
    ELSE IF fault = "fetch_all_documents"
    THEN [ out |-> "HTTPError", status_code |-> 500, docs |-> {} ]
    ELSE [ out |-> "ok", status_code |-> 200, docs |-> idx.docs ]

\* what perform_archive leaves behind: the calls it issued in their order, the
\* index and the backup after them, and the CommandResult
Archived(calls, idx, bkp, success, value) ==
    [ calls |-> calls, index |-> idx, backup |-> bkp, success |-> success, out |-> value ]

\* perform_archive(target_cluster, deployment_status, ...) under a fault
perform_archive(idx, bkp, deployment_status, fault) ==
    IF WorkersInProgress(deployment_status)
    THEN Archived(<<>>, idx, bkp, FALSE, "RfsWorkersInProgress")
    ELSE LET fetched == fetch_all_documents(idx, fault)
         IN  IF fetched.out = "HTTPError"
             THEN Archived(<< "backup" >>, idx, bkp, FALSE,
                           IF fetched.status_code = 404
                           THEN "WorkingIndexDoesntExist" ELSE "HTTPError")
             ELSE IF fault = "delete"
             THEN Archived(<< "backup", "delete" >>, idx, Backup(fetched.docs), FALSE,
                           "HTTPError")
             ELSE Archived(<< "backup", "delete" >>, NoIndex, Backup(fetched.docs), TRUE,
                           "backup_path")

\* -------------------------------------------------------------- sessions

\* the longest session name create_session accepts
MaxSessionNameLength == 50

\* characters of a session name: one of [a-zA-Z0-9_-], one outside, a newline
SafeChars == { "a" }

NameChars == SafeChars \cup { "/", "\n" }

\* a name of n safe characters
Repeat(n) == [ k \in 1..n |-> "a" ]

\* session names: every name of up to two characters, and names at the length
\* limit and one past it, ending in a safe character, a bad one or a newline
SessionNames ==
    UNION { [1..n -> NameChars] : n \in 0..2 }
        \cup { Repeat(MaxSessionNameLength - 1) \o << c >> : c \in NameChars }
        \cup { Repeat(MaxSessionNameLength) \o << c >> : c \in NameChars }

\* re.match(r'^[a-zA-Z0-9_\-]+$', name): `$` matches at the end of the name and
\* also before a newline that ends it
is_url_safe(name) ==
    LET matched == IF Len(name) > 0 /\ name[Len(name)] = "\n"
                   THEN SubSeq(name, 1, Len(name) - 1)
                   ELSE name
    IN  Len(matched) > 0 /\ \A k \in DOMAIN matched : matched[k] \in SafeChars

unexpected_length(name) == Len(name) <= 0 \/ Len(name) > MaxSessionNameLength

\* create_session(session) on the table of session names
create_session(tbl, name) ==
    IF unexpected_length(name) THEN [ table |-> tbl, out |-> "SessionNameLengthInvalid" ]
    ELSE IF ~is_url_safe(name)
    THEN [ table |-> tbl, out |-> "SessionNameContainsInvalidCharacters" ]
    ELSE IF \E k \in DOMAIN tbl : tbl[k] = name
    THEN [ table |-> tbl, out |-> "SessionAlreadyExists" ]
    ELSE [ table |-> Append(tbl, name), out |-> "ok" ]

\* delete_session(session_name)
delete_session(tbl, name) ==
    LET removed == SelectSeq(tbl, LAMBDA row : row = name)
    IN  IF removed = <<>>
        THEN [ table |-> tbl, out |-> "SessionNotFound" ]
        ELSE [ table |-> SelectSeq(tbl, LAMBDA row : row # name), out |-> "ok" ]

\* ---------------------------------------------------------- bookkeeping

\* what a call gives back: the table and the workers' leases after it, the
\* exception it raised ("ok" when none) and the rows it returned
Outcome(tbl, ls, out, ret) == [ table |-> tbl, leases |-> ls, out |-> out, ret |-> ret ]

\* the record kept of the call that acted last
Result(op, session_name, work_item_id, worker_id, out) ==
    [ op |-> op, session_name |-> session_name, work_item_id |-> work_item_id,
      worker_id |-> worker_id, out |-> out ]

NoCall == Result("none", "none", "none", NoWorker, "ok")

ReturnedId(ret) == IF ret = <<>> THEN "none" ELSE ret[1].work_item_id

\* a lease as the worker it was handed to knows it
Lease(item) ==
    [ worker_id |-> item.worker_id, session_name |-> item.session_name,
      work_item_id |-> item.work_item_id, lease_expiry |-> item.lease_expiry ]

SameLease(l, item) ==
    /\ l.worker_id = item.worker_id
    /\ l.session_name = item.session_name
    /\ l.work_item_id = item.work_item_id

\* the worker receives the row acquire/renew returned
Granted(ls, item) == { l \in ls : ~SameLease(l, item) } \cup { Lease(item) }

\* the worker receives the row complete returned
Returned(ls, item) == { l \in ls : ~SameLease(l, item) }

\* BackfillEntity: the fields the service's start and stop read and write
BackfillEntity(status, state, started_at, finished_at, error_message) ==
    [ status |-> status, state |-> state, started_at |-> started_at,
      finished_at |-> finished_at, error_message |-> error_message ]

\* the entity create_backfill returns
NewBackfill == BackfillEntity("NOT_STARTED", "pending", FALSE, FALSE, FALSE)

\* a handler that is not between two table calls
IdleThread == [ pc |-> "idle", op |-> "none", found |-> <<>>, item |-> <<>> ]

Init ==
    /\ now = 0
    /\ table = <<>>
    /\ result = NoCall
    /\ leases = {}
    /\ thr = [ t \in Threads |-> IdleThread ]
    /\ desired = 0
    /\ alive = Workers
    /\ index = NoIndex
    /\ backup = NoBackup
    /\ sessions = <<>>
    /\ entity = NewBackfill

\* ------------------------------------------- whole operations (one caller)

\* DEFAULT_LEASE_DURATION_SECONDS, in units of the model's clock
DEFAULT_LEASE_DURATION_SECONDS == 2

\* create_work_item(work_item) at instant t
create_work_item(tbl, ls, work_item) ==
    IF find_work_item(tbl, work_item.session_name, work_item.work_item_id) # <<>>
    THEN Outcome(tbl, ls, "WorkItemAlreadyExists", <<>>)
    ELSE Outcome(Append(tbl, work_item), ls, "ok", <<work_item>>)

\* acquire_next_work_item(session_name, worker_id, lease_duration_seconds) at t
acquire_next_work_item(tbl, ls, session_name, worker_id, lease_duration_seconds, t) ==
    LET avail == available_items(tbl, session_name, t)
        item == AcquireItem(avail[1], worker_id, lease_duration_seconds, t)
    IN  IF avail = <<>>
        THEN Outcome(tbl, ls, "ok", <<>>)
        ELSE Outcome(update_work_item(tbl, item), Granted(ls, item), "ok", <<item>>)

\* renew_lease(session_name, work_item_id, worker_id, lease_duration_seconds,
\* progress) at t
renew_lease(tbl, ls, session_name, work_item_id, worker_id, lease_duration_seconds, progress, t) ==
    LET found == find_work_item(tbl, session_name, work_item_id)
        out == LeaseCheck(found, worker_id, t)
        item == RenewItem(found[1], lease_duration_seconds, progress, t)
    IN  IF out # "ok"
        THEN Outcome(tbl, ls, out, <<>>)
        ELSE Outcome(update_work_item(tbl, item), Granted(ls, item), "ok", <<item>>)

\* complete_work_item(session_name, work_item_id, worker_id) at t
complete_work_item(tbl, ls, session_name, work_item_id, worker_id, t) ==
    LET found == find_work_item(tbl, session_name, work_item_id)
        out == LeaseCheck(found, worker_id, t)
        item == CompleteItem(found[1], t)
    IN  IF out # "ok"
        THEN Outcome(tbl, ls, out, <<>>)
        ELSE Outcome(update_work_item(tbl, item), Returned(ls, item), "ok", <<item>>)

\* cleanup_expired_leases(session_name) at t; ret holds the rows it reset
cleanup_expired_leases(tbl, ls, session_name, t) ==
    LET items == expired_items(tbl, session_name, t)
    IN  Outcome(CleanupLoop(tbl, items), ls, "ok", items)

\* the acquire endpoint: cleanup_expired_leases, then acquire_next_work_item with
\* the default lease; HTTPException(404) is raised inside the try block and the
\* handler's `except Exception` turns it into 500
acquire_work_item(tbl, ls, session_name, worker_id, t) ==
    LET cleaned == cleanup_expired_leases(tbl, ls, session_name, t)
        got == acquire_next_work_item(cleaned.table, cleaned.leases, session_name,
                                      worker_id, DEFAULT_LEASE_DURATION_SECONDS, t)
    IN  IF got.ret = <<>>
        THEN Outcome(got.table, got.leases, "500", <<>>)
        ELSE Outcome(got.table, got.leases, "200", got.ret)

\* delete_work_items_by_session(session_name); ret holds the rows removed, and
\* a lease on a removed row is a lease on nothing
delete_work_items_by_session(tbl, ls, session_name) ==
    Outcome(SelectSeq(tbl, LAMBDA row : row.session_name # session_name),
            { l \in ls : l.session_name # session_name }, "ok",
            SelectSeq(tbl, LAMBDA row : row.session_name = session_name))

\* variant: the lease handlers answer an expired lease as a lease not owned
LeaseErrorStatus_ExpiredAsConflict(out) ==
    IF out = "WorkItemNotFound" THEN "404"
    ELSE IF out \in {"LeaseNotOwnedByWorker", "LeaseExpired"} THEN "409"
    ELSE "500"

\* the except clauses of the renew and complete endpoints
LeaseErrorStatus(out) ==
    IF out = "WorkItemNotFound" THEN "404"
    ELSE IF out = "LeaseNotOwnedByWorker" THEN "409"
    ELSE IF out = "LeaseExpired" THEN "410"
    ELSE "500"

\* the except clauses of the create endpoint
CreateErrorStatus(out) ==
    IF out = "WorkItemAlreadyExists" THEN "409" ELSE "500"

\* the create endpoint, POST / of a session that exists
post_work_item(tbl, ls, session_name, request) ==
    LET call == create_work_item(tbl, ls, BackfillWorkItem(session_name, request))
    IN  IF call.out = "ok"
        THEN Outcome(call.table, call.leases, "201", call.ret)
        ELSE Outcome(call.table, call.leases, CreateErrorStatus(call.out), <<>>)

\* the renew endpoint, PUT /{work_item_id}/lease; it passes no lease duration,
\* so the lease is renewed for the default one
put_lease(tbl, ls, session_name, work_item_id, worker_id, progress, t) ==
    LET call == renew_lease(tbl, ls, session_name, work_item_id, worker_id,
                            DEFAULT_LEASE_DURATION_SECONDS, progress, t)
    IN  IF call.out = "ok"
        THEN Outcome(call.table, call.leases, "200", call.ret)
        ELSE Outcome(call.table, call.leases, LeaseErrorStatus(call.out), <<>>)

\* the complete endpoint, PUT /{work_item_id}/complete
put_complete(tbl, ls, session_name, work_item_id, worker_id, t) ==
    LET call == complete_work_item(tbl, ls, session_name, work_item_id, worker_id, t)
    IN  IF call.out = "ok"
        THEN Outcome(call.table, call.leases, "200", call.ret)
        ELSE Outcome(call.table, call.leases, LeaseErrorStatus(call.out), <<>>)

\* the model WorkQueueStatus, last_update left out
WorkQueueStatus(session_name, total, counts, sums, started_at) ==
    [ session_name |-> session_name,
      total_work_items |-> total,
      pending_work_items |-> counts.pending,
      assigned_work_items |-> counts.assigned,
      completed_work_items |-> counts.completed,
      total_documents |-> sums.documents,
      total_documents_processed |-> sums.documents_processed,
      total_size_bytes |-> sums.size_bytes,
      total_bytes_processed |-> sums.bytes_processed,
      started_at |-> started_at ]

NoCounts == [ pending |-> 0, assigned |-> 0, completed |-> 0 ]

NoSums == [ documents |-> 0, documents_processed |-> 0, size_bytes |-> 0, bytes_processed |-> 0 ]

\* variant: the status the row stores, whatever its lease
EffectiveStatus_Stored(item, t) == item.status

\* the "effective status" branches of the loop of get_work_queue_status
EffectiveStatus(item, t) ==
    IF item.status = "completed" THEN "completed"
    ELSE IF item.status = "assigned" /\ ~is_lease_expired(item, t) THEN "assigned"
    ELSE "pending"

\* the "earliest start time" branch of the loop
EarliestStart(earliest_start_time, item) ==
    IF item.started_at # NoTime
       /\ (earliest_start_time = NoTime \/ item.started_at < earliest_start_time)
    THEN item.started_at
    ELSE earliest_start_time

\* the loop of get_work_queue_status over the rows of the session
RECURSIVE StatusLoop(_, _, _, _, _, _, _)
StatusLoop(session_name, work_items, current_time, k, counts, sums, earliest_start_time) ==
    IF k > Len(work_items)
    THEN WorkQueueStatus(session_name, Len(work_items), counts, sums, earliest_start_time)
    ELSE LET item == work_items[k]
             effective == EffectiveStatus(item, current_time)
         IN  StatusLoop(session_name, work_items, current_time, k + 1,
                        [ counts EXCEPT ![effective] = @ + 1 ],
                        [ sums EXCEPT
                            !.documents = @ + item.document_count,
                            !.documents_processed = @ + item.documents_processed,
                            !.size_bytes = @ + item.total_size_bytes,
                            !.bytes_processed = @ + item.bytes_processed ],
                        EarliestStart(earliest_start_time, item))

\* get_work_queue_status(session_name) at instant current_time
get_work_queue_status(tbl, session_name, current_time) ==
    LET all_items == SelectSeq(tbl, LAMBDA row : row.session_name = session_name)
    IN  IF all_items = <<>>
        THEN WorkQueueStatus(session_name, 0, NoCounts, NoSums, NoTime)
        ELSE StatusLoop(session_name, all_items, current_time, 1, NoCounts, NoSums, NoTime)

\* what the batch endpoint holds when its loop ends: created_items, which is
\* the response body, and failed_items, which is written to the log
BatchOutcome(tbl, ls, created_items, failed_items) ==
    [ table |-> tbl, leases |-> ls, out |-> "201", ret |-> created_items,
      failed_items |-> failed_items ]

\* the loop of create_work_items_batch over the requests of the batch
RECURSIVE BatchLoop(_, _, _, _, _, _)
BatchLoop(tbl, ls, session_name, requests, created_items, failed_items) ==
    IF requests = <<>>
    THEN BatchOutcome(tbl, ls, created_items, failed_items)
    ELSE LET call == create_work_item(tbl, ls, BackfillWorkItem(session_name, Head(requests)))
         IN  IF call.out = "ok"
             THEN BatchLoop(call.table, call.leases, session_name, Tail(requests),
                            Append(created_items, call.ret[1]), failed_items)
             ELSE BatchLoop(tbl, ls, session_name, Tail(requests), created_items,
                            Append(failed_items,
                                   [ work_item_id |-> Head(requests).work_item_id,
                                     error |-> call.out ]))

\* the batch endpoint create_work_items_batch(session_name, requests)
create_work_items_batch(tbl, ls, session_name, requests) ==
    BatchLoop(tbl, ls, session_name, requests, <<>>, <<>>)

\* a call runs whole: the store and the leases become what it gives back
Finish(call, op, session_name, work_item_id, worker_id) ==
    /\ table' = call.table
    /\ leases' = call.leases
    /\ result' = Result(op, session_name, work_item_id, worker_id, call.out)
    /\ UNCHANGED <<now, thr, desired, alive, index, backup, sessions, entity>>

CreateFrom(requests) ==
    \E s \in Sessions, r \in requests :
        Finish(create_work_item(table, leases, BackfillWorkItem(s, r)),
               "create_work_item", s, r.work_item_id, NoWorker)

Create == CreateFrom(CreateWorkItemRequests)

\* the requests of a backfill of one shard
OneShard == { r \in CreateWorkItemRequests : r.shard_number = 0 }

CreateOne == CreateFrom(OneShard)

\* the request bodies of the batch endpoint: one or two items, repeats included
Batches ==
    { <<r>> : r \in CreateWorkItemRequests }
        \cup { <<r1, r2>> : r1 \in CreateWorkItemRequests, r2 \in CreateWorkItemRequests }

Batch ==
    \E s \in Sessions, requests \in Batches :
        Finish(create_work_items_batch(table, leases, s, requests),
               "create_work_items_batch", s, "none", NoWorker)

\* the lease durations the workers ask for: shorter than the default, which
\* the acquire endpoint applies
ShortLeases == { d \in LeaseDurations : d < DEFAULT_LEASE_DURATION_SECONDS }

AcquireBy(w) ==
    \E s \in Sessions, d \in ShortLeases :
        LET call == acquire_next_work_item(table, leases, s, w, d, now)
        IN  Finish(call, "acquire_next_work_item", s, ReturnedId(call.ret), w)

Acquire == \E w \in Workers : AcquireBy(w)

RenewBy(w) ==
    \E s \in Sessions, i \in WorkItemIds, d \in ShortLeases :
        Finish(renew_lease(table, leases, s, i, w, d, NoProgress, now),
               "renew_lease", s, i, w)

Renew == \E w \in Workers : RenewBy(w)

CompleteBy(w) ==
    \E s \in Sessions, i \in WorkItemIds :
        Finish(complete_work_item(table, leases, s, i, w, now),
               "complete_work_item", s, i, w)

Complete == \E w \in Workers : CompleteBy(w)

\* renew_lease with or without a progress update
ReportBy(w) ==
    \E s \in Sessions, i \in WorkItemIds, d \in ShortLeases, p \in ProgressUpdates :
        Finish(renew_lease(table, leases, s, i, w, d, p, now), "renew_lease", s, i, w)

Report == \E w \in Workers : ReportBy(w)

PostWorkItem ==
    \E s \in Sessions, r \in OneShard :
        Finish(post_work_item(table, leases, s, r), "post_work_item", s, r.work_item_id,
               NoWorker)

PutLease ==
    \E s \in Sessions, i \in WorkItemIds, w \in Workers, p \in ProgressUpdates :
        Finish(put_lease(table, leases, s, i, w, p, now), "put_lease", s, i, w)

PutComplete ==
    \E s \in Sessions, i \in WorkItemIds, w \in Workers :
        Finish(put_complete(table, leases, s, i, w, now), "put_complete", s, i, w)

\* a deployment scaled to one worker
SoleWorker == { CHOOSE w \in Workers : TRUE }

Status ==
    \E s \in Sessions :
        Finish(Outcome(table, leases, "ok", <<get_work_queue_status(table, s, now)>>),
               "get_work_queue_status", s, "none", NoWorker)

Cleanup ==
    \E s \in Sessions :
        Finish(cleanup_expired_leases(table, leases, s, now),
               "cleanup_expired_leases", s, "none", NoWorker)

AcquireEndpoint ==
    \E s \in Sessions, w \in Workers :
        LET call == acquire_work_item(table, leases, s, w, now)
        IN  Finish(call, "acquire_work_item", s, ReturnedId(call.ret), w)

Delete ==
    \E s \in Sessions :
        Finish(delete_work_items_by_session(table, leases, s),
               "delete_work_items_by_session", s, "none", NoWorker)

\* the deployment commands of the backfill: they set the desired worker count
set_desired_count(op, units) ==
    /\ desired' = units
    /\ result' = Result(op, "none", "none", NoWorker, "ok")
    /\ UNCHANGED <<now, table, leases, thr, alive, index, backup, sessions, entity>>

start == set_desired_count("start", DefaultScale)

pause == set_desired_count("pause", 0)

stop == set_desired_count("stop", 0)

scale == \E units \in Scales : set_desired_count("scale", units)

\* a worker crashes: it makes no call from now on; there is no heartbeat
\* channel, so nothing in the store changes. Some worker stays to poll.
Die ==
    \E w \in alive :
        /\ Cardinality(alive) > 1
        /\ alive' = alive \ {w}
        /\ result' = Result("die", "none", "none", w, "ok")
        /\ UNCHANGED <<now, table, leases, thr, desired, index, backup, sessions, entity>>

\* the calls of the workers that are alive
Poll == \E w \in alive : AcquireBy(w)

Heartbeat == \E w \in alive : RenewBy(w)

Done == \E w \in alive : CompleteBy(w)

\* the clock advances
Tick ==
    /\ now < MaxTime
    /\ now' = now + 1
    /\ result' = Result("tick", "none", "none", NoWorker, "ok")
    /\ UNCHANGED <<table, leases, thr, desired, alive, index, backup, sessions, entity>>

\* ------------------------------------ commands on the working-state index

\* the work items the workers may have written: two attempts at shard 0 and
\* one at shard 1
WorkItemDocIds ==
    { WorkItemDocId("0", "1"), WorkItemDocId("0", "2"), WorkItemDocId("1", "1") }

\* what the workers may have written of one document, if they wrote it at all
DocContents ==
    [ present : BOOLEAN, completedAt : {NoTime, 1}, expiration : {0, 2},
      successor_items : BOOLEAN ]

\* the states the workers may have left the index in: absent, or with a
\* shard_setup document or none, and work items claimed, completed or split
IndexStates ==
    {NoIndex} \cup
    { Index({ Doc(id, written[id].completedAt, written[id].expiration,
                  written[id].successor_items) :
                id \in { i \in WorkItemDocIds : written[i].present } }
            \cup setup) :
        written \in { w \in [WorkItemDocIds -> DocContents] :
                        \A i \in WorkItemDocIds :
                            ~w[i].present =>
                                /\ w[i].completedAt = NoTime
                                /\ w[i].expiration = 0
                                /\ ~w[i].successor_items },
        setup \in { {}, { Doc(ShardSetupId, NoTime, 0, FALSE) },
                        { Doc(ShardSetupId, 1, 0, FALSE) } } }

\* a console that finds the workers' index in any of these states
InitRfs ==
    /\ now = 0
    /\ table = <<>>
    /\ result = NoCall
    /\ leases = {}
    /\ thr = [ t \in Threads |-> IdleThread ]
    /\ desired = 0
    /\ alive = Workers
    /\ index \in IndexStates
    /\ backup = NoBackup
    /\ sessions = <<>>
    /\ entity = NewBackfill

\* what the deployment backend answers when asked for its status: <<>> is None
DeploymentStatuses(desired_count) ==
    { <<>> } \cup { << DeploymentStatus(running, pending, desired_count) >> :
                        running \in Scales, pending \in Scales }

\* variant: workers are taken to be active whatever the deployment says
ActiveWorkers_Always(deployment_status) == TRUE

\* build_backfill_status: active workers are assumed when the deployment
\* status cannot be looked up, and are read off the desired count otherwise
ActiveWorkers(deployment_status) ==
    IF deployment_status = <<>> THEN TRUE ELSE deployment_status[1].desired # 0

\* ECSRFSBackfill.build_backfill_status (K8sRFSBackfill.build_backfill_status
\* reads the same): the deep status, with the worker-activity signal of the
\* deployment; status_read tells whether the deployment status was obtained
build_backfill_status ==
    \E deployment_status \in DeploymentStatuses(desired) :
        LET call == get_detailed_status_obj(index, ActiveWorkers(deployment_status), now)
        IN  /\ result' = [ op |-> "build_backfill_status", session_name |-> "none",
                           work_item_id |-> "none", worker_id |-> NoWorker,
                           out |-> call.out, ret |-> call.ret,
                           status_read |-> deployment_status # <<>> ]
            /\ UNCHANGED <<now, table, leases, thr, desired, alive, index, backup, sessions, entity>>

\* ECSRFSBackfill.archive: the deployment's status as the service gives it, then
\* perform_archive
archive ==
    \E running \in Scales, pending \in Scales, fault \in ArchiveFaults :
        LET call == perform_archive(index, backup,
                                    DeploymentStatus(running, pending, desired), fault)
        IN  /\ index' = call.index
            /\ backup' = call.backup
            /\ result' = [ op |-> "archive", session_name |-> "none",
                           work_item_id |-> "none", worker_id |-> NoWorker,
                           out |-> call.out, ret |-> call.calls ]
            /\ UNCHANGED <<now, table, leases, thr, desired, alive, sessions, entity>>

\* the most sessions the console is given to keep
MaxSessions == 2

SessionCall(call, op, name) ==
    /\ sessions' = call.table
    /\ result' = [ op |-> op, session_name |-> name, work_item_id |-> "none",
                   worker_id |-> NoWorker, out |-> call.out ]
    /\ UNCHANGED <<now, table, leases, thr, desired, alive, index, backup, entity>>

CreateSession ==
    \E name \in SessionNames :
        /\ Len(sessions) < MaxSessions
        /\ SessionCall(create_session(sessions, name), "create_session", name)

DeleteSession ==
    \E name \in SessionNames :
        SessionCall(delete_session(sessions, name), "delete_session", name)

\* ------------------------------- concurrent handlers (one step per table call)
\* The endpoints are plain `def` handlers, which the server runs on a thread
\* pool, and backfill_work_db takes no lock: between the table call that reads
\* and the table call that writes, other handlers run.

\* a call that ends at its first table call: nothing left to write
EndsAtOnce(call, op, session_name, work_item_id, worker_id) ==
    /\ result' = Result(op, session_name, work_item_id, worker_id, call.out)
    /\ UNCHANGED <<now, table, leases, thr, desired, alive, index, backup, sessions, entity>>

\* the handler keeps the rows it read and the row it is about to write
Holds(t, op, found, item) ==
    /\ thr' = [ thr EXCEPT ![t] = [ pc |-> "update", op |-> op, found |-> found,
                                    item |-> item ] ]
    /\ UNCHANGED <<now, table, leases, result, desired, alive, index, backup, sessions, entity>>

\* acquire_next_work_item up to its search
BeginAcquire(t) ==
    \E s \in Sessions, w \in Workers, d \in ShortLeases :
        LET avail == available_items(table, s, now)
        IN  /\ thr[t].pc = "idle"
            /\ IF avail = <<>>
               THEN EndsAtOnce(acquire_next_work_item(table, leases, s, w, d, now),
                               "acquire_next_work_item", s, "none", w)
               ELSE Holds(t, "acquire_next_work_item", <<avail[1]>>,
                          <<AcquireItem(avail[1], w, d, now)>>)

\* renew_lease up to the end of its checks
BeginRenew(t) ==
    \E s \in Sessions, i \in WorkItemIds, w \in Workers, d \in ShortLeases :
        LET found == find_work_item(table, s, i)
        IN  /\ thr[t].pc = "idle"
            /\ IF LeaseCheck(found, w, now) # "ok"
               THEN EndsAtOnce(renew_lease(table, leases, s, i, w, d, NoProgress, now),
                               "renew_lease", s, i, w)
               ELSE Holds(t, "renew_lease", found,
                          <<RenewItem(found[1], d, NoProgress, now)>>)

\* complete_work_item up to the end of its checks
BeginComplete(t) ==
    \E s \in Sessions, i \in WorkItemIds, w \in Workers :
        LET found == find_work_item(table, s, i)
        IN  /\ thr[t].pc = "idle"
            /\ IF LeaseCheck(found, w, now) # "ok"
               THEN EndsAtOnce(complete_work_item(table, leases, s, i, w, now),
                               "complete_work_item", s, i, w)
               ELSE Holds(t, "complete_work_item", found, <<CompleteItem(found[1], now)>>)

\* cleanup_expired_leases up to its search
BeginCleanup(t) ==
    \E s \in Sessions :
        LET items == expired_items(table, s, now)
        IN  /\ thr[t].pc = "idle"
            /\ IF items = <<>>
               THEN EndsAtOnce(cleanup_expired_leases(table, leases, s, now),
                               "cleanup_expired_leases", s, "none", NoWorker)
               ELSE /\ thr' = [ thr EXCEPT ![t] = [ pc |-> "cleanup",
                                                    op |-> "cleanup_expired_leases",
                                                    found |-> items, item |-> <<>> ] ]
                    /\ UNCHANGED <<now, table, leases, result, desired, alive, index, backup, sessions, entity>>

\* the leases after the row a handler wrote is returned to its caller
Handed(ls, op, item) ==
    IF op = "complete_work_item" THEN Returned(ls, item) ELSE Granted(ls, item)

\* the update_work_item call that ends acquire, renew and complete
Update(t) ==
    LET item == thr[t].item[1]
        op == thr[t].op
    IN  /\ thr[t].pc = "update"
        /\ thr' = [ thr EXCEPT ![t] = IdleThread ]
        /\ IF update_count(table, item) = 0
           THEN /\ result' = Result(op, item.session_name, item.work_item_id,
                                    item.worker_id, "WorkItemNotFound")
                /\ UNCHANGED <<table, leases, entity>>
           ELSE /\ table' = update_work_item(table, item)
                /\ leases' = Handed(leases, op, item)
                /\ result' = Result(op, item.session_name, item.work_item_id,
                                    item.worker_id, "ok")
        /\ UNCHANGED <<now, desired, alive, index, backup, sessions, entity>>

\* one round of the loop of cleanup_expired_leases
CleanupStep(t) ==
    LET item == ResetItem(Head(thr[t].found))
        rest == Tail(thr[t].found)
    IN  /\ thr[t].pc = "cleanup"
        /\ update_count(table, item) > 0
        /\ table' = update_work_item(table, item)
        /\ IF rest = <<>>
           THEN /\ thr' = [ thr EXCEPT ![t] = IdleThread ]
                /\ result' = Result("cleanup_expired_leases", item.session_name, "none",
                                    NoWorker, "ok")
           ELSE /\ thr' = [ thr EXCEPT ![t].found = rest ]
                /\ result' = Result("cleanup_expired_leases", item.session_name, "none",
                                    NoWorker, "running")
        /\ UNCHANGED <<now, leases, desired, alive, index, backup, sessions, entity>>

\* create_work_item up to its find_work_item
BeginCreate(t) ==
    \E s \in Sessions, r \in CreateWorkItemRequests :
        LET work_item == BackfillWorkItem(s, r)
        IN  /\ thr[t].pc = "idle"
            /\ IF find_work_item(table, s, r.work_item_id) # <<>>
               THEN EndsAtOnce(create_work_item(table, leases, work_item),
                               "create_work_item", s, r.work_item_id, NoWorker)
               ELSE /\ thr' = [ thr EXCEPT ![t] = [ pc |-> "insert",
                                                    op |-> "create_work_item",
                                                    found |-> <<>>,
                                                    item |-> <<work_item>> ] ]
                    /\ UNCHANGED <<now, table, leases, result, desired, alive, index, backup, sessions, entity>>

\* the table.insert that ends create_work_item
Insert(t) ==
    LET work_item == thr[t].item[1]
    IN  /\ thr[t].pc = "insert"
        /\ table' = Append(table, work_item)
        /\ thr' = [ thr EXCEPT ![t] = IdleThread ]
        /\ result' = Result("create_work_item", work_item.session_name,
                            work_item.work_item_id, NoWorker, "ok")
        /\ UNCHANGED <<now, leases, desired, alive, index, backup, sessions, entity>>

\* ------------------------------------------------------- specifications

\* the lease protocol alone: create, acquire, renew, complete, cleanup, time
NextLease ==
    \/ Create
    \/ Acquire
    \/ Renew
    \/ Complete
    \/ Cleanup
    \/ Tick

SpecLease == Init /\ [][NextLease]_vars

\* the lease protocol with its handlers interleaved at the table calls
NextConc ==
    \/ CreateOne
    \/ \E t \in Threads : BeginAcquire(t)
    \/ \E t \in Threads : BeginRenew(t)
    \/ \E t \in Threads : BeginComplete(t)
    \/ \E t \in Threads : BeginCleanup(t)
    \/ \E t \in Threads : Update(t)
    \/ \E t \in Threads : CleanupStep(t)
    \/ Tick

SpecConc == Init /\ [][NextConc]_vars

\* the store with the deployment commands of the backfill, for one shard
NextDeploy ==
    \/ CreateOne
    \/ Acquire
    \/ Renew
    \/ Complete
    \/ Cleanup
    \/ AcquireEndpoint
    \/ Delete
    \/ start
    \/ pause
    \/ stop
    \/ scale
    \/ Tick

SpecDeploy == Init /\ [][NextDeploy]_vars

\* workers that may crash while they work on one shard, a clock that keeps
\* running and workers that keep polling for work
NextLive ==
    \/ CreateOne
    \/ Poll
    \/ Heartbeat
    \/ Done
    \/ Cleanup
    \/ Die
    \/ Tick

SpecLive == Init /\ [][NextLive]_vars /\ WF_vars(Tick) /\ WF_vars(Poll)

\* the lease protocol on one shard with renewals that report progress
NextProgress ==
    \/ CreateOne
    \/ Acquire
    \/ Report
    \/ Complete
    \/ Cleanup
    \/ Tick

SpecProgress == Init /\ [][NextProgress]_vars

\* create handlers interleaved at their table calls, beside whole lease calls
NextCreate ==
    \/ \E t \in Threads : BeginCreate(t)
    \/ \E t \in Threads : Insert(t)
    \/ Acquire
    \/ Complete
    \/ Cleanup
    \/ Tick

SpecCreate == Init /\ [][NextCreate]_vars

\* the status call beside a backfill of two shards that one worker runs,
\* reporting progress
NextStatus ==
    \/ Create
    \/ \E w \in SoleWorker : AcquireBy(w)
    \/ \E w \in SoleWorker : ReportBy(w)
    \/ \E w \in SoleWorker : CompleteBy(w)
    \/ Status
    \/ Tick

SpecStatus == Init /\ [][NextStatus]_vars

\* the endpoints of one shard; workers take their lease from the store with a
\* duration of their own
NextApi ==
    \/ PostWorkItem
    \/ Acquire
    \/ PutLease
    \/ PutComplete
    \/ Tick

SpecApi == Init /\ [][NextApi]_vars

\* the status command on an index the workers wrote, deployment scaled up or
\* down
NextRfs ==
    \/ build_backfill_status
    \/ scale
    \/ Tick

SpecRfs == InitRfs /\ [][NextRfs]_vars

\* the archive command beside the scale and status commands
NextArchive ==
    \/ archive
    \/ scale
    \/ build_backfill_status

SpecArchive == InitRfs /\ [][NextArchive]_vars

\* the session table
NextSession ==
    \/ CreateSession
    \/ DeleteSession

SpecSession == Init /\ [][NextSession]_vars

\* the batch endpoint beside the lease calls
NextBatch ==
    \/ Batch
    \/ Acquire
    \/ Complete
    \/ Cleanup
    \/ Delete
    \/ Tick

SpecBatch == Init /\ [][NextBatch]_vars

\* every whole operation on the store
Next ==
    \/ Create
    \/ Acquire
    \/ Renew
    \/ Complete
    \/ Cleanup
    \/ AcquireEndpoint
    \/ Delete
    \/ Tick

Spec == Init /\ [][Next]_vars

\* ------------------------------------------------------------- properties

Rows(tbl) == { tbl[i] : i \in DOMAIN tbl }

SameKey(a, b) == a.session_name = b.session_name /\ a.work_item_id = b.work_item_id

\* C1: lease exclusivity under whole operations.  No two workers hold leases
\* on the same work item that are both unexpired; and while a row is assigned
\* with lease_expiry >= now, no acquire_next_work_item by another worker returns
\* it and cleanup_expired_leases does not reset it.
C1_LeaseExclusivity ==
    /\ \A l1 \in leases, l2 \in leases :
          (SameKey(l1, l2) /\ l1.worker_id # l2.worker_id)
              => ~(l1.lease_expiry >= now /\ l2.lease_expiry >= now)
    /\ \A row \in Rows(table) :
          (row.status = "assigned" /\ row.lease_expiry >= now) =>
              /\ \A w \in Workers \ {row.worker_id}, d \in LeaseDurations :
                    LET call == acquire_next_work_item(table, leases, row.session_name,
                                                       w, d, now)
                    IN  call.ret = <<>> \/ ~SameKey(call.ret[1], row)
              /\ LET call == cleanup_expired_leases(table, leases, row.session_name, now)
                 IN  /\ \A r \in Rows(call.ret) : ~SameKey(r, row)
                     /\ row \in Rows(call.table)

\* C1 witness: one worker's lease on an item has run out and another worker
\* holds the live lease on the same item
C1_Witness ==
    \E l1 \in leases, l2 \in leases :
        /\ SameKey(l1, l2)
        /\ l1.worker_id # l2.worker_id
        /\ l1.lease_expiry < now
        /\ l2.lease_expiry >= now
        /\ \E row \in Rows(table) :
              SameKey(row, l2) /\ row.worker_id = l2.worker_id /\ row.status = "assigned"

\* C2: no double assignment under concurrent acquire. When the handlers
\* interleave at their table calls, acquire_next_work_item never returns to a
\* worker an item on which another worker was handed a lease that has not
\* expired: two concurrent acquires never both return the same item.
C2_NoDoubleAssignment ==
    [][\A t \in Threads :
          ( /\ thr[t].pc = "update"
            /\ thr[t].op = "acquire_next_work_item"
            /\ thr'[t].pc = "idle"
            /\ result'.out = "ok" )
          => \A l \in leases :
                 (SameKey(l, Head(thr[t].item)) /\ l.worker_id # Head(thr[t].item).worker_id)
                 => l.lease_expiry < now]_vars

\* the rows a handler read and is about to write back
Snapshot(t) == IF thr[t].pc = "idle" THEN <<>> ELSE <<Head(thr[t].found)>>

\* C3: linearization. Interleaved handlers behave as if each ran alone under
\* one guard: whenever a handler writes a row back, the row in the table is
\* still the row that handler read, so no write made in between is lost.
C3_NoStaleWriteBack ==
    [][\A t \in Threads :
          (thr[t].pc # "idle" /\ thr'[t] # thr[t])
          => find_work_item(table, Head(thr[t].found).session_name,
                            Head(thr[t].found).work_item_id) = Snapshot(t)]_vars

\* C4: completed is terminal.  No step changes any field of a row whose status
\* is completed.
C4_CompletedIsTerminal ==
    [][\A i \in DOMAIN table :
          table[i].status = "completed" => (i \in DOMAIN table' /\ table'[i] = table[i])]_vars

\* C5: ownership enforcement.  renew_lease and complete_work_item called with a
\* worker_id that is not the row's worker_id (a pending row without owner
\* included) raise LeaseNotOwnedByWorker, expired lease or not, and leave the
\* table as it was.
C5_OwnershipEnforced ==
    \A row \in Rows(table), w \in Workers, d \in LeaseDurations, p \in ProgressUpdates :
        row.worker_id # w =>
            LET renewed == renew_lease(table, leases, row.session_name, row.work_item_id,
                                       w, d, p, now)
                completed == complete_work_item(table, leases, row.session_name,
                                                row.work_item_id, w, now)
            IN  /\ renewed.out = "LeaseNotOwnedByWorker"
                /\ renewed.table = table
                /\ completed.out = "LeaseNotOwnedByWorker"
                /\ completed.table = table

\* C5 witness: a renewal by a worker that is not the owner, on a row whose lease
\* has already run out, was refused as not owned
C5_Witness ==
    /\ result.op = "renew_lease"
    /\ result.out = "LeaseNotOwnedByWorker"
    /\ \E row \in Rows(table) :
          /\ KeyMatches(row, result.session_name, result.work_item_id)
          /\ row.status = "assigned"
          /\ row.worker_id # result.worker_id
          /\ row.lease_expiry < now

\* C6: expiry strictness.  renew_lease and complete_work_item called by the
\* row's owner after lease_expiry has passed raise LeaseExpired and leave the
\* table as it was: the row stays assigned to that worker with the old expiry.
C6_ExpiryStrict ==
    \A row \in Rows(table), d \in LeaseDurations, p \in ProgressUpdates :
        (row.worker_id \in Workers /\ row.lease_expiry # NoTime /\ now > row.lease_expiry) =>
            LET renewed == renew_lease(table, leases, row.session_name, row.work_item_id,
                                       row.worker_id, d, p, now)
                completed == complete_work_item(table, leases, row.session_name,
                                                row.work_item_id, row.worker_id, now)
            IN  /\ renewed.out = "LeaseExpired"
                /\ renewed.table = table
                /\ completed.out = "LeaseExpired"
                /\ completed.table = table

\* C6 witness: the owner's complete_work_item came after the expiry and was
\* refused; the row is still assigned to that worker
C6_Witness ==
    /\ result.op = "complete_work_item"
    /\ result.out = "LeaseExpired"
    /\ \E row \in Rows(table) :
          /\ KeyMatches(row, result.session_name, result.work_item_id)
          /\ row.status = "assigned"
          /\ row.worker_id = result.worker_id
          /\ row.lease_expiry < now

\* the rows of a session acquire may take at instant t, as the interface states
\* them: pending, or assigned with lease_expiry < now
Eligible(tbl, session_name, t) ==
    { row \in Rows(tbl) :
        /\ row.session_name = session_name
        /\ \/ row.status = "pending"
           \/ row.status = "assigned" /\ row.lease_expiry # NoTime /\ row.lease_expiry < t }

\* the row is in the same hands after the step
Kept(row, after) ==
    /\ after # <<>>
    /\ after[1].status = row.status
    /\ after[1].worker_id = row.worker_id

\* the calls that may take a row out of the hands it is in, and when
Reclaimed(row, after, call) ==
    /\ after # <<>>
    /\ \/ /\ call.op = "complete_work_item"
          /\ row.status = "assigned"
          /\ call.worker_id = row.worker_id
          /\ after[1].status = "completed"
       \/ /\ call.op \in {"cleanup_expired_leases", "acquire_work_item"}
          /\ row.status = "assigned"
          /\ row.lease_expiry < now
          /\ after[1].status = "pending"
       \/ /\ call.op \in {"acquire_next_work_item", "acquire_work_item"}
          /\ row.status = "assigned" => row.lease_expiry < now
          /\ row.status # "completed"
          /\ after[1].status = "assigned"
          /\ after[1].worker_id = call.worker_id

\* the session of the row was deleted
Deleted(row, after, call) ==
    /\ after = <<>>
    /\ call.op = "delete_work_items_by_session"
    /\ call.session_name = row.session_name

\* C7: reclamation happens only through lease expiry. A row changes status or
\* owner only by the owner's complete_work_item, by cleanup_expired_leases
\* (which makes it pending) or by a fresh acquire, the last two only once its
\* lease has expired; every other step leaves every row in the hands it was in.
C7_ReclamationOnlyByExpiry ==
    [][\A row \in Rows(table) :
          LET after == find_work_item(table', row.session_name, row.work_item_id)
          IN  Kept(row, after) \/ Reclaimed(row, after, result')]_vars

\* C7 for operations that run whole, one after the other: a row changes status
\* or owner only by the owner's complete_work_item, by cleanup_expired_leases or
\* by a fresh acquire, the last two only once its lease has expired, or it is
\* removed altogether, whatever its lease, by delete_work_items_by_session;
\* every other operation, pause, stop and scale included, leaves every row in
\* the hands it was in.
C7_ReclamationByExpiryOrDelete ==
    [][\A row \in Rows(table) :
          LET after == find_work_item(table', row.session_name, row.work_item_id)
          IN  \/ Kept(row, after)
              \/ Reclaimed(row, after, result')
              \/ Deleted(row, after, result')]_vars

\* the row is assigned to a worker that has crashed
HeldByDead(session_name, work_item_id, worker_id) ==
    /\ worker_id \notin alive
    /\ \E row \in Rows(table) :
           /\ row.session_name = session_name
           /\ row.work_item_id = work_item_id
           /\ row.status = "assigned"
           /\ row.worker_id = worker_id
           /\ row.lease_expiry < MaxTime

\* the row is assigned to a worker that is alive
HeldByLive(session_name, work_item_id) ==
    \E row \in Rows(table) :
        /\ row.session_name = session_name
        /\ row.work_item_id = work_item_id
        /\ row.status = "assigned"
        /\ row.worker_id \in alive

\* C8: recovery from worker death. When the clock keeps running and some
\* worker keeps polling, an item assigned to a crashed worker (whose lease ends
\* before the clock of the model stops) is eventually assigned to a worker
\* that is alive: no item stays with a dead worker forever.
C8_RecoveryFromWorkerDeath ==
    \A s \in Sessions, i \in WorkItemIds, w \in Workers :
        HeldByDead(s, i, w) ~> HeldByLive(s, i)

\* a crashed worker still believes in its lease while the row has gone to a
\* worker that is alive
C8_Witness ==
    \E l \in leases :
        /\ l.worker_id \notin alive
        /\ l.lease_expiry < now
        /\ result.op = "acquire_next_work_item"
        /\ result.work_item_id = l.work_item_id
        /\ result.worker_id \in alive
        /\ HeldByLive(l.session_name, l.work_item_id)

\* C9: acquire_next_work_item(session, w, d) returns a row only if that row was
\* pending or assigned with lease_expiry < now; the returned row, which is the
\* row now stored, is assigned to w with lease_expiry = now + d; it returns none,
\* and changes nothing, exactly when the session has no such row.
C9_AcquireContract ==
    \A s \in Sessions, w \in Workers, d \in LeaseDurations :
        LET call == acquire_next_work_item(table, leases, s, w, d, now)
        IN  /\ call.out = "ok"
            /\ (call.ret = <<>>) <=> (Eligible(table, s, now) = {})
            /\ call.ret = <<>> => call.table = table
            /\ call.ret # <<>> =>
                  /\ \E row \in Eligible(table, s, now) : SameKey(row, call.ret[1])
                  /\ call.ret[1].status = "assigned"
                  /\ call.ret[1].worker_id = w
                  /\ call.ret[1].lease_expiry = now + d
                  /\ find_work_item(call.table, s, call.ret[1].work_item_id) = call.ret
                  /\ \A row \in Rows(table) :
                        ~SameKey(row, call.ret[1]) => row \in Rows(call.table)

\* C9 witness: acquire passed over an item whose lease is running and returned
\* the other item of the session
C9_Witness ==
    /\ result.op = "acquire_next_work_item"
    /\ result.work_item_id = "B"
    /\ \E a \in Rows(table), b \in Rows(table) :
          /\ a.work_item_id = "A" /\ b.work_item_id = "B"
          /\ a.session_name = result.session_name /\ b.session_name = result.session_name
          /\ a.status = "assigned" /\ a.lease_expiry >= now
          /\ a.worker_id # result.worker_id
          /\ b.worker_id = result.worker_id /\ b.lease_expiry > now

\* C10: acquisition does not depend on cleanup.  acquire_next_work_item takes an
\* expired row that is still assigned, and it returns the same row, and stores
\* the same row, whether or not cleanup_expired_leases ran just before it; the
\* acquire endpoint, which runs the cleanup first, hands out the same row as the
\* bare acquisition with the default lease.
C10_CleanupIndependence ==
    \A s \in Sessions, w \in Workers, d \in LeaseDurations :
        LET bare == acquire_next_work_item(table, leases, s, w, d, now)
            cleaned == cleanup_expired_leases(table, leases, s, now)
            after == acquire_next_work_item(cleaned.table, cleaned.leases, s, w, d, now)
            default == acquire_next_work_item(table, leases, s, w,
                                              DEFAULT_LEASE_DURATION_SECONDS, now)
        IN  /\ bare.ret = after.ret
            /\ bare.ret # <<>> =>
                  find_work_item(bare.table, s, bare.ret[1].work_item_id)
                      = find_work_item(after.table, s, bare.ret[1].work_item_id)
            /\ (\E row \in Rows(table) : IsExpiredLease(row, s, now)) => bare.ret # <<>>
            /\ acquire_work_item(table, leases, s, w, now).ret = default.ret

\* C10 witness: a bare acquisition took item A, which had been started earlier,
\* while item B's expired lease was still in place: no cleanup ran before it
C10_Witness ==
    /\ result.op = "acquire_next_work_item"
    /\ result.work_item_id = "A"
    /\ \E a \in Rows(table), b \in Rows(table) :
          /\ a.work_item_id = "A" /\ b.work_item_id = "B"
          /\ a.worker_id = result.worker_id /\ a.lease_expiry > now
          /\ a.started_at # NoTime /\ a.started_at < now
          /\ b.status = "assigned" /\ b.lease_expiry < now

\* C11: cleanup_expired_leases(session) returns the number of rows of the session
\* that were assigned with lease_expiry < now; afterwards each of those rows is
\* pending without worker_id and lease_expiry, and every other row is as it was.
C11_CleanupContract ==
    \A s \in Sessions :
        LET call == cleanup_expired_leases(table, leases, s, now)
            expired == { i \in DOMAIN table :
                           /\ table[i].session_name = s
                           /\ table[i].status = "assigned"
                           /\ table[i].lease_expiry # NoTime
                           /\ table[i].lease_expiry < now }
        IN  /\ call.out = "ok"
            /\ Len(call.ret) = Cardinality(expired)
            /\ DOMAIN call.table = DOMAIN table
            /\ \A i \in DOMAIN table :
                  IF i \in expired
                  THEN call.table[i] = [ table[i] EXCEPT !.status = "pending",
                                                         !.worker_id = NoWorker,
                                                         !.lease_expiry = NoTime ]
                  ELSE call.table[i] = table[i]

\* C11 witness: a cleanup has just made one item pending again, which a worker
\* had started and not renewed, and has left the other item's running lease alone
C11_Witness ==
    /\ result.op = "cleanup_expired_leases"
    /\ \E a \in Rows(table), b \in Rows(table), l \in leases :
          /\ a.status = "pending" /\ a.worker_id = NoWorker /\ a.lease_expiry = NoTime
          /\ a.started_at # NoTime
          /\ SameKey(l, a) /\ l.lease_expiry < now
          /\ b.status = "assigned" /\ b.lease_expiry >= now

\* C12: reclaim idempotence. A second cleanup_expired_leases of the same session
\* right after the first, no other step in between, returns 0 and changes no
\* row.
C12_ReclaimIdempotent ==
    \A s \in Sessions :
        LET first == cleanup_expired_leases(table, leases, s, now)
            second == cleanup_expired_leases(first.table, first.leases, s, now)
        IN  /\ Len(second.ret) = 0
            /\ second.table = first.table

\* C12 witness: a cleanup has just reclaimed both items of the session, whose
\* leases had run out; a second cleanup would follow it directly
C12_Witness ==
    /\ result.op = "cleanup_expired_leases"
    /\ \E a \in Rows(table), b \in Rows(table), la \in leases, lb \in leases :
          /\ a.work_item_id # b.work_item_id
          /\ a.status = "pending" /\ a.started_at # NoTime
          /\ b.status = "pending" /\ b.started_at # NoTime
          /\ SameKey(la, a) /\ la.lease_expiry < now
          /\ SameKey(lb, b) /\ lb.lease_expiry < now

\* C13: lease_expiry is set exactly while status is assigned. In every
\* reachable state a row has a lease_expiry if and only if it is assigned.
C13_LeaseExpiryIffAssigned ==
    \A row \in Rows(table) : (row.lease_expiry # NoTime) <=> (row.status = "assigned")

\* C14: a successful complete_work_item stores and returns the row with status
\* completed, completed_at = now and both lease fields, worker_id and
\* lease_expiry, cleared.
C14_CompleteContract ==
    \A row \in Rows(table), w \in Workers :
        LET call == complete_work_item(table, leases, row.session_name, row.work_item_id,
                                       w, now)
        IN  call.out = "ok" =>
                /\ call.ret[1].status = "completed"
                /\ call.ret[1].completed_at = now
                /\ call.ret[1].lease_expiry = NoTime
                /\ call.ret[1].worker_id = NoWorker
                /\ find_work_item(call.table, row.session_name, row.work_item_id) = call.ret

\* the fields of a row that renew_lease must not touch, progress or no progress
SameButLeaseAndProgress(a, b) ==
    [ a EXCEPT !.lease_expiry = NoTime, !.documents_processed = 0, !.bytes_processed = 0,
               !.last_progress_update = NoTime ]
    = [ b EXCEPT !.lease_expiry = NoTime, !.documents_processed = 0, !.bytes_processed = 0,
                 !.last_progress_update = NoTime ]

\* C15: a successful renew_lease sets lease_expiry = now + lease_duration; with
\* a progress update it overwrites documents_processed, bytes_processed and
\* last_progress_update, without one it leaves those three as they were; status,
\* worker_id, started_at and the shard descriptor are unchanged either way, and
\* so is every other row.
C15_RenewContract ==
    \A row \in Rows(table), w \in Workers, d \in LeaseDurations, p \in ProgressUpdates :
        LET call == renew_lease(table, leases, row.session_name, row.work_item_id, w, d,
                                p, now)
            item == call.ret[1]
        IN  call.out = "ok" =>
                /\ item.lease_expiry = now + d
                /\ IF p = NoProgress
                   THEN /\ item.documents_processed = row.documents_processed
                        /\ item.bytes_processed = row.bytes_processed
                        /\ item.last_progress_update = row.last_progress_update
                   ELSE /\ item.documents_processed = p[1].documents_processed
                        /\ item.bytes_processed = p[1].bytes_processed
                        /\ item.last_progress_update = now
                /\ SameButLeaseAndProgress(item, row)
                /\ find_work_item(call.table, row.session_name, row.work_item_id) = call.ret
                /\ \A other \in Rows(table) :
                      ~SameKey(other, row) => other \in Rows(call.table)

\* C15 witness: a renewal without progress has just extended the lease of a row
\* whose progress an earlier renewal had reported
C15_Witness ==
    /\ result.op = "renew_lease"
    /\ result.out = "ok"
    /\ \E row \in Rows(table) :
          /\ KeyMatches(row, result.session_name, result.work_item_id)
          /\ row.status = "assigned"
          /\ row.lease_expiry > now
          /\ row.documents_processed > 0
          /\ row.last_progress_update # NoTime
          /\ row.last_progress_update < now

\* C16: progress is monotonic. From one state to the next, a row that stays
\* assigned never has less documents_processed or bytes_processed than before.
C16_ProgressMonotonic ==
    [][\A row \in Rows(table) :
          LET after == find_work_item(table', row.session_name, row.work_item_id)
          IN  (row.status = "assigned" /\ after # <<>> /\ after[1].status = "assigned")
              => /\ after[1].documents_processed >= row.documents_processed
                 /\ after[1].bytes_processed >= row.bytes_processed]_vars

\* C17: started_at is set at the first acquisition of an item and never
\* changes afterwards: a step gives a row without started_at one only by
\* assigning it, and leaves a started_at that is set as it is, whatever the
\* step (expiry, cleanup, acquisition by the same or another worker).
C17_StartedAtSetOnce ==
    [][\A row \in Rows(table) :
          LET after == find_work_item(table', row.session_name, row.work_item_id)
          IN  after # <<>> =>
                  IF row.started_at = NoTime
                  THEN \/ after[1].started_at = NoTime /\ after[1].status = "pending"
                       \/ /\ after[1].started_at \in 0..now
                          /\ after[1].status = "assigned"
                  ELSE after[1].started_at = row.started_at]_vars

\* a session other than the ones the workers use
OtherSessions == {"s2"}

\* C18: create_work_item raises WorkItemAlreadyExists and leaves the table as it
\* was when a row with the same (session_name, work_item_id) is present, and
\* appends the row otherwise, the same work_item_id in another session
\* included; so in every reachable state the table holds at most one row per
\* composite key.
C18_OneRowPerKey ==
    /\ \A i \in DOMAIN table, j \in DOMAIN table : SameKey(table[i], table[j]) => i = j
    /\ \A s \in Sessions \cup OtherSessions, r \in CreateWorkItemRequests :
          LET work_item == BackfillWorkItem(s, r)
              call == create_work_item(table, leases, work_item)
          IN  IF \E row \in Rows(table) : SameKey(row, work_item)
              THEN call.out = "WorkItemAlreadyExists" /\ call.table = table
              ELSE call.out = "ok" /\ call.table = Append(table, work_item)

\* C19: batch creation is partial-failure tolerant. Every item of the batch is
\* in the table afterwards, wherever a failing item stands in the batch, the
\* rows that were there are untouched, and the result handed to the caller
\* holds the failed items beside the created ones.
C19_BatchPartialFailure ==
    \A s \in Sessions, requests \in Batches :
        LET call == create_work_items_batch(table, leases, s, requests)
        IN  /\ \A k \in DOMAIN requests :
                  find_work_item(call.table, s, requests[k].work_item_id) # <<>>
            /\ \A row \in Rows(table) : row \in Rows(call.table)
            /\ \A created \in Rows(call.ret) : created \in Rows(call.table)
            /\ \A failed \in Rows(call.failed_items) : failed \in Rows(call.ret)

\* C19, the part about the table alone: every item of the batch is in the table
\* afterwards, wherever a failing item stands in the batch; the rows that were
\* there are untouched and the rows returned are the rows created.
C19_BatchCreatesAllItCan ==
    \A s \in Sessions, requests \in Batches :
        LET call == create_work_items_batch(table, leases, s, requests)
        IN  /\ \A k \in DOMAIN requests :
                  find_work_item(call.table, s, requests[k].work_item_id) # <<>>
            /\ \A row \in Rows(table) : row \in Rows(call.table)
            /\ \A created \in Rows(call.ret) : created \in Rows(call.table)
            /\ Len(call.ret) + Len(call.failed_items) = Len(requests)

\* the sum of f over the positions of a sequence
RECURSIVE SumAt(_, _)
SumAt(f, positions) ==
    IF positions = {} THEN 0
    ELSE LET k == CHOOSE k \in positions : TRUE
         IN  f[k] + SumAt(f, positions \ {k})

\* C20: the aggregation of get_work_queue_status is correct. Over the rows of
\* the session: total is their number; each row is counted once, as completed,
\* as assigned (status assigned, lease not expired) or as pending (status
\* pending, or assigned with the lease expired); the four totals are the sums
\* of document_count, documents_processed, total_size_bytes and
\* bytes_processed; started_at is the least started_at that is set, or null.
C20_AggregationCorrect ==
    \A s \in Sessions \cup OtherSessions :
        LET status == get_work_queue_status(table, s, now)
            mine == { k \in DOMAIN table : table[k].session_name = s }
            completed == { k \in mine : table[k].status = "completed" }
            assigned == { k \in mine : /\ table[k].status = "assigned"
                                       /\ ~(table[k].lease_expiry # NoTime
                                            /\ table[k].lease_expiry < now) }
            pending == { k \in mine : \/ table[k].status = "pending"
                                      \/ /\ table[k].status = "assigned"
                                         /\ table[k].lease_expiry # NoTime
                                         /\ table[k].lease_expiry < now }
            starts == { table[k].started_at : k \in mine } \ {NoTime}
        IN  /\ status.session_name = s
            /\ status.total_work_items = Cardinality(mine)
            /\ status.completed_work_items = Cardinality(completed)
            /\ status.assigned_work_items = Cardinality(assigned)
            /\ status.pending_work_items = Cardinality(pending)
            /\ status.pending_work_items + status.assigned_work_items
                   + status.completed_work_items = status.total_work_items
            /\ status.total_documents = SumAt([k \in mine |-> table[k].document_count], mine)
            /\ status.total_size_bytes = SumAt([k \in mine |-> table[k].total_size_bytes], mine)
            /\ status.total_documents_processed
                   = SumAt([k \in mine |-> table[k].documents_processed], mine)
            /\ status.total_bytes_processed
                   = SumAt([k \in mine |-> table[k].bytes_processed], mine)
            /\ IF starts = {} THEN status.started_at = NoTime
               ELSE status.started_at \in starts /\ \A t \in starts : status.started_at <= t

\* the status call has answered on a table of two rows, one assigned with its
\* lease expired and one completed, with progress reported and two start times
C20_Witness ==
    /\ result.op = "get_work_queue_status"
    /\ Len(table) = 2
    /\ \E i \in DOMAIN table, j \in DOMAIN table :
          /\ table[i].status = "assigned"
          /\ table[i].lease_expiry < now
          /\ table[i].documents_processed > 0
          /\ table[j].status = "completed"
          /\ table[i].started_at # NoTime
          /\ table[j].started_at # NoTime
          /\ table[i].started_at # table[j].started_at

\* C21: on a session without work items, get_work_queue_status gives a status
\* whose counts and sums are zero and whose started_at is null, and
\* cleanup_expired_leases gives 0; neither raises, neither changes the store.
C21_EmptySessionZero ==
    \A s \in Sessions \cup OtherSessions :
        (\A row \in Rows(table) : row.session_name # s)
            => LET status == get_work_queue_status(table, s, now)
                   call == cleanup_expired_leases(table, leases, s, now)
               IN  /\ status = WorkQueueStatus(s, 0, NoCounts, NoSums, NoTime)
                   /\ status.total_work_items = 0
                   /\ status.pending_work_items = 0
                   /\ status.assigned_work_items = 0
                   /\ status.completed_work_items = 0
                   /\ status.total_documents = 0
                   /\ status.total_documents_processed = 0
                   /\ status.total_size_bytes = 0
                   /\ status.total_bytes_processed = 0
                   /\ status.started_at = NoTime
                   /\ call.out = "ok"
                   /\ Len(call.ret) = 0
                   /\ call.table = table
                   /\ call.leases = leases

\* cleanup has run, after time has passed, on a session that holds no items
C21_Witness ==
    /\ result.op = "cleanup_expired_leases"
    /\ result.out = "ok"
    /\ \A row \in Rows(table) : row.session_name # result.session_name
    /\ now > 0

\* C22: each error kind reaches the caller as its own response, never as the
\* generic failure 500. On the renew and complete endpoints an absent item gives
\* 404, a lease the caller does not own gives 409 and an expired lease of the
\* caller gives 410; on the create endpoint a duplicate item gives 409.
C22_ErrorKindsKeepTheirStatus ==
    \A s \in Sessions :
        /\ \A r \in CreateWorkItemRequests :
              (find_work_item(table, s, r.work_item_id) # <<>>)
                  => post_work_item(table, leases, s, r).out = "409"
        /\ \A i \in WorkItemIds, w \in Workers, p \in ProgressUpdates :
              LET found == find_work_item(table, s, i)
                  renewed == put_lease(table, leases, s, i, w, p, now).out
                  completed == put_complete(table, leases, s, i, w, now).out
                  expired == found[1].lease_expiry # NoTime /\ found[1].lease_expiry < now
              IN  /\ renewed = completed
                  /\ IF found = <<>> THEN renewed = "404"
                     ELSE IF found[1].worker_id # w /\ ~expired THEN renewed = "409"
                     ELSE IF found[1].worker_id = w /\ expired THEN renewed = "410"
                     ELSE IF found[1].worker_id # w /\ expired THEN renewed \in {"409", "410"}
                     ELSE renewed = "200"

\* the renew endpoint has answered 410 to the owner of a lease that expired
C22_Witness ==
    /\ result.op = "put_lease"
    /\ result.out = "410"
    /\ \E row \in Rows(table) :
          /\ KeyMatches(row, result.session_name, result.work_item_id)
          /\ row.worker_id = result.worker_id
          /\ row.lease_expiry < now

\* the shard counts and started epochs the derived values are computed from
ShardCounts == 0..3

StartedEpochs == {NoTime} \cup 0..MaxTime

IndexDocs == index.docs

\* C23: status classification. For every total, completed and active_workers,
\* compute_dervived_values gives state completed, percentage 100 and a finished
\* time when total = 0 or completed >= total; otherwise it gives no finished
\* time, percentage completed/total*100, and state running with active workers,
\* paused without.
C23_StatusClassification ==
    \A total \in ShardCounts, completed \in ShardCounts, active_workers \in BOOLEAN :
        \A started_epoch \in StartedEpochs :
            LET derived == compute_dervived_values(IndexDocs, total, completed,
                                                   started_epoch, active_workers, now)
            IN  IF total = 0 \/ completed >= total
                THEN /\ derived.status = "Completed"
                     /\ RatEq(derived.percentage_completed, Rat(100, 1))
                     /\ derived.finished # NoTime
                ELSE /\ derived.finished = NoTime
                     /\ RatEq(derived.percentage_completed, Rat(completed * 100, total))
                     /\ derived.status = IF active_workers THEN "Running" ELSE "Paused"

\* the status command has reported a backfill as paused, some shards done
C23_Witness ==
    /\ result.op = "build_backfill_status"
    /\ result.out = "ok"
    /\ result.ret[1].status = "Paused"
    /\ result.ret[1].shard_complete > 0
    /\ result.ret[1].shard_complete < result.ret[1].shard_total
    /\ result.ret[1].finished = NoTime

\* the percentage is strictly between 0 and 100
Partly(pct) == RatLess(Rat(0, 1), pct) /\ RatLess(pct, Rat(100, 1))

\* elapsed * (100 - pct) / pct, elapsed in milliseconds
EtaMs(elapsed_ms, pct) ==
    RatMul(Rat(elapsed_ms, 1), RatDiv(RatSub(Rat(100, 1), pct), pct))

\* C24: the derived status carries an ETA only in state running with
\* 0 < percentage < 100, where it is elapsed_seconds * (100 - percentage) /
\* percentage * 1000 ms with elapsed_seconds = now - started_epoch; in states
\* completed and paused, and at percentage 0, there is no ETA.
C24_EtaFromElapsed ==
    \A total \in ShardCounts, completed \in ShardCounts, active_workers \in BOOLEAN :
        \A started_epoch \in StartedEpochs :
            LET derived == compute_dervived_values(IndexDocs, total, completed,
                                                   started_epoch, active_workers, now)
                pct == derived.percentage_completed
            IN  /\ derived.eta_ms # <<>> =>
                      /\ derived.status = "Running"
                      /\ Partly(pct)
                      /\ RatEq(derived.eta_ms[1], EtaMs((now - started_epoch) * 1000, pct))
                /\ (derived.status \in {"Completed", "Paused"} \/ RatEq(pct, Rat(0, 1)))
                      => derived.eta_ms = <<>>

\* C24, as the code has it: the derived status carries an ETA exactly in state
\* running with 0 < percentage < 100 and a started epoch that is known, where
\* it is elapsed_seconds * (100 - percentage) / percentage * 1000 ms with
\* elapsed_seconds = now - started_epoch, and 0.001 s when that is less.
C24_EtaFromClampedElapsed ==
    \A total \in ShardCounts, completed \in ShardCounts, active_workers \in BOOLEAN :
        \A started_epoch \in StartedEpochs :
            LET derived == compute_dervived_values(IndexDocs, total, completed,
                                                   started_epoch, active_workers, now)
                pct == derived.percentage_completed
                elapsed_ms == IF (now - started_epoch) * 1000 < 1
                              THEN 1
                              ELSE (now - started_epoch) * 1000
            IN  IF derived.status = "Running" /\ Partly(pct) /\ started_epoch > 0
                THEN /\ derived.eta_ms # <<>>
                     /\ RatEq(derived.eta_ms[1], EtaMs(elapsed_ms, pct))
                ELSE derived.eta_ms = <<>>

\* the status command has reported an ETA for a backfill whose started epoch
\* is not in the past
C24_Witness ==
    /\ result.op = "build_backfill_status"
    /\ result.out = "ok"
    /\ result.ret[1].status = "Running"
    /\ result.ret[1].eta_ms # <<>>
    /\ result.ret[1].started >= now

\* the shard a work item is about: its index and shard number, whatever the
\* attempt
ShardOf(doc) == [ index_name |-> doc.id[1], shard_number |-> doc.id[4] ]

\* C25: shard deduplication. Each of the five shard counts is the number of
\* distinct shards among the documents its query matches: documents of one
\* index and shard that differ in the attempt suffix count as one shard.
C25_CountsDistinctShards ==
    index.exists =>
        \A key \in StatusQueryKeys :
            parse_query_response(index.docs, key, now)
                = Cardinality({ ShardOf(doc) :
                                  doc \in { d \in index.docs :
                                              StatusQueryMatches(key, d, now) } })

\* C26: each of the five counting queries leaves out the shard_setup document
\* and every document that has successor items: a shard that was split is in
\* none of the five counts.
C26_SplitShardsInNoCount ==
    index.exists =>
        \A key \in StatusQueryKeys :
            /\ \A doc \in index.docs :
                  (IsShardSetup(doc) \/ doc.successor_items)
                      => ~StatusQueryMatches(key, doc, now)
            /\ parse_query_response(index.docs, key, now)
                  = parse_query_response({ doc \in index.docs :
                                             ~IsShardSetup(doc) /\ ~doc.successor_items },
                                         key, now)

\* C27: when the working-state index does not exist, get_detailed_status_obj
\* raises DeepStatusNotYetAvailable before it runs any counting query, instead
\* of returning counts of zero; a backfill whose index is absent is never
\* reported as completed.
C27_NoIndexNoStatus ==
    \A active_workers \in BOOLEAN :
        LET call == get_detailed_status_obj(index, active_workers, now)
        IN  IF index.exists
            THEN call.out = "ok" /\ call.queries = StatusQueryKeys
            ELSE /\ call.out = "DeepStatusNotYetAvailable"
                 /\ call.queries = {}
                 /\ call.ret = <<>>

\* the status command has failed on a cluster without the index
C27_Witness ==
    /\ result.op = "build_backfill_status"
    /\ result.out = "DeepStatusNotYetAvailable"
    /\ result.ret = <<>>
    /\ ~index.exists

C29_SessionNameValidation ==
    \A name \in SessionNames :
        LET created == create_session(sessions, name)
            deleted == delete_session(sessions, name)
            known == \E k \in DOMAIN sessions : sessions[k] = name
        IN  /\ created.out =
                  IF Len(name) = 0 \/ Len(name) > MaxSessionNameLength
                  THEN "SessionNameLengthInvalid"
                  ELSE IF \E k \in DOMAIN name : name[k] \notin SafeChars
                  THEN "SessionNameContainsInvalidCharacters"
                  ELSE IF known THEN "SessionAlreadyExists"
                  ELSE "ok"
            /\ created.out # "ok" => created.table = sessions
            /\ created.out = "ok" => created.table = Append(sessions, name)
            /\ ~known => deleted.out = "SessionNotFound" /\ deleted.table = sessions

\* C29 for the names that do not end in a newline: the order of the three
\* rejections, nothing inserted by a rejected call, SessionNotFound on delete.
C29_ExceptTrailingNewline ==
    \A name \in { n \in SessionNames : Len(n) = 0 \/ n[Len(n)] # "\n" } :
        LET created == create_session(sessions, name)
            deleted == delete_session(sessions, name)
            known == \E k \in DOMAIN sessions : sessions[k] = name
        IN  /\ created.out =
                  IF Len(name) = 0 \/ Len(name) > MaxSessionNameLength
                  THEN "SessionNameLengthInvalid"
                  ELSE IF \E k \in DOMAIN name : name[k] \notin SafeChars
                  THEN "SessionNameContainsInvalidCharacters"
                  ELSE IF known THEN "SessionAlreadyExists"
                  ELSE "ok"
            /\ created.out # "ok" => created.table = sessions
            /\ ~known => deleted.out = "SessionNotFound" /\ deleted.table = sessions

\* C30: cleanup_expired_leases running beside acquire_next_work_item or
\* renew_lease never revokes a live lease. A write of cleanup does not make
\* pending, with no owner, a row that is assigned under a lease that has not
\* expired, which it holds because it was acquired or renewed after cleanup
\* read it as expired.
C30_CleanupKeepsLiveLeases ==
    [][\A t \in Threads :
          (thr[t].pc = "cleanup" /\ thr'[t] # thr[t])
              => \A row \in Rows(table) :
                    LET after == find_work_item(table', row.session_name, row.work_item_id)
                    IN  (row.status = "assigned" /\ row.lease_expiry >= now)
                            => ~(/\ after # <<>>
                                 /\ after[1].status = "pending"
                                 /\ after[1].worker_id = NoWorker)]_vars

\* C31: the expiry test of the owner's calls (is_lease_expired: now after
\* lease_expiry) and the eligibility test of acquire_next_work_item
\* (lease_expiry before now) agree at every instant, the instant
\* now = lease_expiry included: for an assigned item exactly one of "the
\* owner's renew_lease is accepted" and "acquire_next_work_item may take the
\* item for another worker" holds, never both and never neither.
C31_ExpiryTestsAgree ==
    \A row \in Rows(table) :
        row.status = "assigned" =>
            \A d \in LeaseDurations :
                LET renewed == renew_lease(table, leases, row.session_name, row.work_item_id,
                                           row.worker_id, d, NoProgress, now)
                    accepted == renewed.out = "ok"
                    takeable == row \in Rows(available_items(table, row.session_name, now))
                IN  accepted # takeable

\* C31 witness: at the very instant at which the lease of an assigned item
\* ends, another worker has asked for work and was handed nothing
C31_Witness ==
    \E row \in Rows(table) :
        /\ row.status = "assigned"
        /\ row.lease_expiry = now
        /\ result.op = "acquire_next_work_item"
        /\ result.worker_id # row.worker_id
        /\ result.work_item_id = "none"

\* ------------------------------------------- two sessions in one table

\* the sessions of the table: the workers' one and another one
AllSessions == Sessions \cup OtherSessions

\* list_work_items_by_session(session_name)
list_work_items_by_session(tbl, session_name) ==
    SelectSeq(tbl, LAMBDA row : row.session_name = session_name)

CreateIn(s) ==
    \E r \in OneShard :
        Finish(create_work_item(table, leases, BackfillWorkItem(s, r)),
               "create_work_item", s, r.work_item_id, NoWorker)

AcquireIn(s) ==
    \E w \in Workers, d \in ShortLeases :
        LET call == acquire_next_work_item(table, leases, s, w, d, now)
        IN  Finish(call, "acquire_next_work_item", s, ReturnedId(call.ret), w)

CompleteIn(s) ==
    \E i \in WorkItemIds, w \in Workers :
        Finish(complete_work_item(table, leases, s, i, w, now),
               "complete_work_item", s, i, w)

CleanupIn(s) ==
    Finish(cleanup_expired_leases(table, leases, s, now),
           "cleanup_expired_leases", s, "none", NoWorker)

DeleteIn(s) ==
    Finish(delete_work_items_by_session(table, leases, s),
           "delete_work_items_by_session", s, "none", NoWorker)

NextIsolation ==
    \/ \E s \in AllSessions : CreateIn(s)
    \/ \E s \in AllSessions : AcquireIn(s)
    \/ \E s \in AllSessions : CompleteIn(s)
    \/ \E s \in AllSessions : CleanupIn(s)
    \/ \E s \in AllSessions : DeleteIn(s)
    \/ Tick

SpecIsolation == Init /\ [][NextIsolation]_vars

\* the rows of the sessions other than session_name, in the table's order
Foreign(tbl, session_name) ==
    SelectSeq(tbl, LAMBDA row : row.session_name # session_name)

\* a call for session_name left the rows of the other sessions as they were
\* and returned rows of session_name only
KeepsToSession(call, session_name) ==
    /\ Foreign(call.table, session_name) = Foreign(table, session_name)
    /\ \A row \in Rows(call.ret) : row.session_name = session_name

\* C32: session isolation. The operations on work items for a session s
\* (acquire, renew, complete, cleanup, status, list, delete) never return,
\* count, modify or remove an item of another session, even when the same
\* work_item_id exists in both; delete_work_items_by_session(s) removes
\* exactly the items of s and returns their number.
C32_SessionIsolation ==
    \A s \in AllSessions :
        LET own == SelectSeq(table, LAMBDA row : row.session_name = s)
            status == get_work_queue_status(table, s, now)
            deleted == delete_work_items_by_session(table, leases, s)
        IN  /\ \A w \in Workers, d \in LeaseDurations :
                  KeepsToSession(acquire_next_work_item(table, leases, s, w, d, now), s)
            /\ \A i \in WorkItemIds, w \in Workers, d \in LeaseDurations, p \in ProgressUpdates :
                  KeepsToSession(renew_lease(table, leases, s, i, w, d, p, now), s)
            /\ \A i \in WorkItemIds, w \in Workers :
                  KeepsToSession(complete_work_item(table, leases, s, i, w, now), s)
            /\ KeepsToSession(cleanup_expired_leases(table, leases, s, now), s)
            /\ status.total_work_items = Len(own)
            /\ status.pending_work_items + status.assigned_work_items
                   + status.completed_work_items = Len(own)
            /\ list_work_items_by_session(table, s) = own
            /\ KeepsToSession(deleted, s)
            /\ deleted.table = Foreign(table, s)
            /\ Len(deleted.ret) = Len(own)

\* C32 witness: both sessions hold an item with the same work_item_id, the
\* one of a session is completed after a call for that session while the one
\* of the other session is still as it was assigned
C32_Witness ==
    \E r1 \in Rows(table), r2 \in Rows(table) :
        /\ r1.session_name # r2.session_name
        /\ r1.work_item_id = r2.work_item_id
        /\ r1.status = "completed"
        /\ r2.status = "assigned"
        /\ result.op = "complete_work_item"
        /\ result.session_name = r1.session_name
        /\ result.out = "ok"

\* C33: having no eligible work is not a server error. When the session has
\* no pending item and no assigned item whose lease has expired, the acquire
\* endpoint answers 404 ("No available work items"); it answers 500 only when
\* a call of the store fails unexpectedly, which no call does here.
C33_NoWorkIs404 ==
    \A s \in Sessions, w \in Workers :
        LET call == acquire_work_item(table, leases, s, w, now)
        IN  /\ available_items(table, s, now) = <<>> => call.out = "404"
            /\ call.out # "500"

\* ------------------------------------------------- a queue that drains

\* the worker that keeps polling and completes what it acquires in time
ReliableWorkers == SoleWorker

\* the row (session_name, work_item_id) is assigned to worker_id
AssignedTo(session_name, work_item_id, worker_id) ==
    \E row \in Rows(table) :
        /\ KeyMatches(row, session_name, work_item_id)
        /\ row.status = "assigned"
        /\ row.worker_id = worker_id

\* the reliable worker polls
PollReliable == \E w \in ReliableWorkers : AcquireBy(w)

\* the reliable worker completes an item it has acquired
CompleteReliable ==
    \E w \in ReliableWorkers, s \in Sessions, i \in WorkItemIds :
        /\ AssignedTo(s, i, w)
        /\ Finish(complete_work_item(table, leases, s, i, w, now),
                  "complete_work_item", s, i, w)

\* another worker polls and may never come back; it takes a lease only when
\* the clock of the model can still run past the end of that lease
PollOther ==
    \E w \in Workers \ ReliableWorkers, s \in Sessions, d \in ShortLeases :
        /\ now + d < MaxTime
        /\ LET call == acquire_next_work_item(table, leases, s, w, d, now)
           IN  Finish(call, "acquire_next_work_item", s, ReturnedId(call.ret), w)

\* another worker completes
CompleteOther == \E w \in Workers \ ReliableWorkers : CompleteBy(w)

\* the clock advances, but not past the end of a lease under which the
\* reliable worker still holds an item: it completes before its lease expires
TickInTime ==
    /\ \A row \in Rows(table), w \in ReliableWorkers :
          (row.status = "assigned" /\ row.worker_id = w) => now < row.lease_expiry
    /\ Tick

NextDrain ==
    \/ Create
    \/ PollReliable
    \/ CompleteReliable
    \/ PollOther
    \/ CompleteOther
    \/ Cleanup
    \/ TickInTime

SpecDrain ==
    /\ Init
    /\ [][NextDrain]_vars
    /\ WF_vars(TickInTime)
    /\ WF_vars(PollReliable)
    /\ WF_vars(CompleteReliable)

\* the item exists / is completed
Created(session_name, work_item_id) ==
    find_work_item(table, session_name, work_item_id) # <<>>

Completed(session_name, work_item_id) ==
    \E row \in Rows(table) :
        KeyMatches(row, session_name, work_item_id) /\ row.status = "completed"

\* every item of the session is completed
Drained(session_name) ==
    \A row \in Rows(table) : row.session_name = session_name => row.status = "completed"

ShardCount(key) == parse_query_response(index.docs, key, now)

\* C35: the five shard counts are consistent for every content of the
\* working-state index: completed + incomplete = total and
\* in_progress + unclaimed = incomplete, so that every incomplete shard, one
\* that was never claimed included, is either in progress or waiting.
C35_ShardCountsConsistent ==
    index.exists =>
        /\ ShardCount("completed") + ShardCount("incomplete") = ShardCount("total")
        /\ ShardCount("in progress") + ShardCount("unclaimed") = ShardCount("incomplete")

\* the same on an index without a document that has successor items; the
\* second equation on every index
C35_ExceptSplitShards ==
    index.exists =>
        /\ (\A doc \in index.docs : ~doc.successor_items) =>
              ShardCount("completed") + ShardCount("incomplete") = ShardCount("total")
        /\ ShardCount("in progress") + ShardCount("unclaimed") = ShardCount("incomplete")

\* C36: a counting query that fails never makes the backfill look finished.
\* When the index exists but the total or the completed query fails,
\* get_detailed_status_obj does not report the state completed with
\* percentage 100 unless the counts it did obtain show completed >= total.
C36_FailedCountNotFinished ==
    index.exists =>
        \A failed \in QueryFaults, active_workers \in BOOLEAN :
            ({"total", "completed"} \cap failed # {}) =>
                LET call == detailed_status_obj(index, active_workers, now, failed)
                    total == QueryValue(index.docs, "total", now, failed)
                    completed == QueryValue(index.docs, "completed", now, failed)
                    shown == /\ total # <<>>
                             /\ \/ total[1] = 0
                                \/ completed # <<>> /\ completed[1] >= total[1]
                IN  (/\ call.out = "ok"
                     /\ call.ret[1].status = "Completed"
                     /\ RatEq(call.ret[1].percentage_completed, Rat(100, 1))) => shown

\* ------------------------------------- the status beside the commands

\* the status command beside start, pause, stop and scale
NextCommands ==
    \/ build_backfill_status
    \/ start
    \/ pause
    \/ stop
    \/ scale

SpecCommands == InitRfs /\ [][NextCommands]_vars

\* the status command has answered with a status
Reported == result.op = "build_backfill_status" /\ result.out = "ok"

\* C37: build_backfill_status passes active_workers = (desired worker count
\* is not 0), and true when the deployment status cannot be read; hence once
\* pause or stop has set the desired count to 0 a backfill with
\* completed < total is reported paused and never running, and a backfill with
\* completed >= total is reported completed whatever the worker count.
C37_PausedAfterPause ==
    Reported =>
        LET status == result.ret[1]
            active_workers == IF result.status_read THEN desired # 0 ELSE TRUE
        IN  /\ result.ret = get_detailed_status_obj(index, active_workers, now).ret
            /\ (desired = 0 /\ status.shard_complete < status.shard_total)
                  => status.status = "Paused"
            /\ status.shard_complete >= status.shard_total => status.status = "Completed"

\* C37, as the code has it: with the desired count at 0 a backfill with
\* completed < total is reported paused when the deployment status was read,
\* and running when it could not be read; the rest as stated.
C37_PausedWhenStatusRead ==
    Reported =>
        LET status == result.ret[1]
            active_workers == IF result.status_read THEN desired # 0 ELSE TRUE
        IN  /\ result.ret = get_detailed_status_obj(index, active_workers, now).ret
            /\ (desired = 0 /\ status.shard_complete < status.shard_total)
                  => status.status = IF result.status_read THEN "Paused" ELSE "Running"
            /\ status.shard_complete >= status.shard_total => status.status = "Completed"

\* with the desired count at 0 and the deployment status read, a backfill
\* that has shards left is reported paused
C37_Witness ==
    /\ Reported
    /\ result.status_read
    /\ desired = 0
    /\ result.ret[1].shard_complete < result.ret[1].shard_total
    /\ result.ret[1].status = "Paused"

\* ---------------------------------- concurrent handlers of session_db

\* the names the concurrent callers ask for: the short names create_session
\* accepts
ConcurrentNames ==
    { name \in SessionNames : Len(name) <= 2 /\ create_session(<<>>, name).out = "ok" }

\* the positions of a handler inside create_session
SessionPcs == {"session-check", "session-insert"}

\* variant: the functions of session_db run without the lock
with_lock_Unlocked(t) == TRUE

\* with _LOCK: a handler enters a function of session_db when no other thread
\* is inside one (the lock is re-entrant for the thread that holds it)
with_lock(t) == \A u \in Threads \ {t} : thr[u].pc \notin SessionPcs

\* create_session is entered: the lock is taken
EnterCreateSession(t) ==
    \E name \in ConcurrentNames :
        /\ thr[t].pc = "idle"
        /\ with_lock(t)
        /\ Len(sessions) < MaxSessions
        /\ thr' = [ thr EXCEPT ![t] = [ pc |-> "session-check", op |-> "create_session",
                                        found |-> <<>>, item |-> <<name>> ] ]
        /\ UNCHANGED <<now, table, result, leases, desired, alive, index, backup, sessions, entity>>

\* create_session up to its existence check: the name checks, then table.get;
\* an exception leaves the function and releases the lock
CheckSession(t) ==
    LET name == thr[t].item[1]
        call == create_session(sessions, name)
    IN  /\ thr[t].pc = "session-check"
        /\ IF call.out # "ok"
           THEN /\ thr' = [ thr EXCEPT ![t] = IdleThread ]
                /\ result' = [ op |-> "create_session", session_name |-> name,
                               work_item_id |-> "none", worker_id |-> NoWorker,
                               out |-> call.out ]
           ELSE /\ thr' = [ thr EXCEPT ![t].pc = "session-insert" ]
                /\ UNCHANGED result
        /\ UNCHANGED <<now, table, leases, desired, alive, index, backup, sessions, entity>>

\* the table.insert that ends create_session; the lock is released
InsertSession(t) ==
    LET name == thr[t].item[1]
    IN  /\ thr[t].pc = "session-insert"
        /\ sessions' = Append(sessions, name)
        /\ thr' = [ thr EXCEPT ![t] = IdleThread ]
        /\ result' = [ op |-> "create_session", session_name |-> name,
                       work_item_id |-> "none", worker_id |-> NoWorker, out |-> "ok" ]
        /\ UNCHANGED <<now, table, leases, desired, alive, index, backup, entity>>

\* delete_session, one table call under the lock
DeleteSessionBy(t) ==
    \E name \in ConcurrentNames :
        /\ thr[t].pc = "idle"
        /\ with_lock(t)
        /\ SessionCall(delete_session(sessions, name), "delete_session", name)

NextSessionConc ==
    \/ \E t \in Threads : EnterCreateSession(t)
    \/ \E t \in Threads : CheckSession(t)
    \/ \E t \in Threads : InsertSession(t)
    \/ \E t \in Threads : DeleteSessionBy(t)

SpecSessionConc == Init /\ [][NextSessionConc]_vars

\* the table holds a session of this name
SessionExists(name) == \E k \in DOMAIN sessions : sessions[k] = name

\* C38: concurrent create_session calls with the same name. The existence
\* check and the insert run under the same lock, so a call that returns
\* inserts its session exactly when no session of that name exists and fails
\* with SessionAlreadyExists, inserting nothing, when one exists: of the calls
\* for one name exactly one succeeds; the sessions table never holds two
\* sessions with the same name.
C38_OneCreateWins ==
    /\ [](\A i \in DOMAIN sessions, j \in DOMAIN sessions :
              i # j => sessions[i] # sessions[j])
    /\ [][\A t \in Threads :
             (thr[t].pc \in SessionPcs /\ thr'[t].pc = "idle") =>
                 LET name == thr[t].item[1]
                 IN  IF SessionExists(name)
                     THEN result'.out = "SessionAlreadyExists" /\ sessions' = sessions
                     ELSE result'.out = "ok" /\ sessions' = Append(sessions, name)]_vars

\* C38 witness: a session was inserted, a second call with the same name has
\* been answered SessionAlreadyExists, and a third caller holds the lock for
\* that name
C38_Witness ==
    /\ result.op = "create_session"
    /\ result.out = "SessionAlreadyExists"
    /\ SessionExists(result.session_name)
    /\ \E t \in Threads :
          thr[t].pc = "session-check" /\ thr[t].item[1] = result.session_name

\* ------------------------------------------------ the status command

\* what may go wrong in the deep check besides an absent index: the request
\* for the index raises although the index exists
DeepCheckFaults == {"none", "request"}

\* get_detailed_status(target_cluster): the exception it raises, "ok" when it
\* returns the shard status
get_detailed_status(idx, fault, t) ==
    IF fault = "request"
    THEN "DeepStatusNotYetAvailable"
    ELSE get_detailed_status_obj(idx, TRUE, t).out

\* variant: an exception of the deep check is not caught
DeepCheckCaught_Never(exception) == FALSE

\* get_status: try / except Exception around get_detailed_status
DeepCheckCaught(exception) == TRUE

\* the state get_status derives from the deployment counts
BackfillStatus(deployment_status) ==
    IF deployment_status.running > 0 THEN "RUNNING"
    ELSE IF deployment_status.pending > 0 THEN "STARTING"
    ELSE "STOPPED"

\* CommandResult(success, (state, status_string)); detailed tells whether the
\* shard status was appended to the status string
StatusResult(success, state, detailed) ==
    [ success |-> success, state |-> state, detailed |-> detailed ]

\* ECSRFSBackfill.get_status(deep_check) at t, given what get_instance_statuses
\* answers (<<>> is None)
get_status(idx, deployment_status, deep_check, fault, t) ==
    IF deployment_status = <<>>
    THEN StatusResult(FALSE, "Failed to get instance statuses", FALSE)
    ELSE LET deep == IF deep_check THEN get_detailed_status(idx, fault, t) ELSE "skipped"
         IN  IF deep \notin {"ok", "skipped"} /\ ~DeepCheckCaught(deep)
             THEN StatusResult(FALSE, deep, FALSE)
             ELSE StatusResult(TRUE, BackfillStatus(deployment_status[1]), deep = "ok")

\* the status command
GetStatus ==
    \E deployment_status \in DeploymentStatuses(desired), deep_check \in BOOLEAN :
        \E fault \in DeepCheckFaults :
            LET call == get_status(index, deployment_status, deep_check, fault, now)
            IN  /\ result' = [ op |-> "get_status", session_name |-> "none",
                               work_item_id |-> "none", worker_id |-> NoWorker,
                               out |-> call.state, success |-> call.success,
                               detailed |-> call.detailed, deep_check |-> deep_check ]
                /\ UNCHANGED <<now, table, leases, thr, desired, alive, index, backup, sessions, entity>>

NextGetStatus ==
    \/ GetStatus
    \/ scale

SpecGetStatus == InitRfs /\ [][NextGetStatus]_vars

\* C39: a failed deep check does not fail the status call. When the detailed
\* shard status cannot be obtained because the index is absent or a request
\* fails, get_status(deep_check=True) still returns success, with the state
\* derived from the deployment counts: RUNNING when running > 0, else STARTING
\* when pending > 0, else STOPPED.
C39_DeepCheckFailureIsNotFailure ==
    \A deployment_status \in DeploymentStatuses(desired) \ { <<>> } :
        \A fault \in DeepCheckFaults :
            (~index.exists \/ fault = "request") =>
                LET call == get_status(index, deployment_status, TRUE, fault, now)
                    counts == deployment_status[1]
                IN  /\ call.success
                    /\ ~call.detailed
                    /\ call.state = "RUNNING" <=> counts.running > 0
                    /\ call.state = "STARTING" <=> (counts.running = 0 /\ counts.pending > 0)
                    /\ call.state = "STOPPED" <=> (counts.running = 0 /\ counts.pending = 0)

\* C39 witness: the status command ran its deep check on a deployment that is
\* starting, the index is absent, and it answered STARTING without the shard
\* status
C39_Witness ==
    /\ result.op = "get_status"
    /\ result.deep_check
    /\ ~index.exists
    /\ result.success
    /\ ~result.detailed
    /\ result.out = "STARTING"

\* ------------------------------------------------ the backfill service

\* BackfillStatus and BackfillState of the domain entity
BackfillStatuses ==
    {"NOT_STARTED", "STARTING", "RUNNING", "TERMINATING", "STOPPED", "FAILED", "COMPLETED"}

BackfillStates == {"pending", "running", "completed", "failed", "cancelled", "paused"}

\* variant: a backfill that is starting may be started again
can_start_OrStarting(backfill) == backfill.status \in {"NOT_STARTED", "STOPPED", "STARTING"}

\* BackfillEntity.can_start
can_start(backfill) == backfill.status \in {"NOT_STARTED", "STOPPED"}

\* BackfillEntity.can_stop
can_stop(backfill) == backfill.status \in {"STARTING", "RUNNING"}

\* BackfillEntity.start(), stop(), complete(), fail(error_message)
EntityStart(backfill) ==
    [ backfill EXCEPT !.status = "RUNNING", !.state = "running", !.started_at = TRUE ]

EntityStop(backfill) ==
    [ backfill EXCEPT !.status = "STOPPED", !.state = "cancelled", !.finished_at = TRUE ]

EntityComplete(backfill) ==
    [ backfill EXCEPT !.status = "COMPLETED", !.state = "completed", !.finished_at = TRUE ]

EntityFail(backfill) ==
    [ backfill EXCEPT !.status = "FAILED", !.state = "failed", !.error_message = TRUE,
                      !.finished_at = TRUE ]

\* what the backfill implementation does when the service calls it: it
\* returns, or it raises
ImplOutcomes == {"ok", "CommandRunnerError", "Exception"}

\* what a call of the service gives back: the entity after it and the
\* exception raised ("ok" when none)
ServiceOutcome(backfill, out) == [ entity |-> backfill, out |-> out ]

\* BackfillService.start_backfill(backfill)
start_backfill(backfill, impl) ==
    IF ~can_start(backfill)
    THEN ServiceOutcome(backfill, "BackfillAlreadyRunningError")
    ELSE IF impl = "ok"
    THEN ServiceOutcome(EntityStart(backfill), "ok")
    ELSE ServiceOutcome(EntityFail(backfill), "BackfillCreationError")

\* BackfillService.stop_backfill(backfill)
stop_backfill(backfill, impl) ==
    IF ~can_stop(backfill)
    THEN ServiceOutcome(backfill, "BackfillNotRunningError")
    ELSE IF impl = "ok"
    THEN ServiceOutcome(EntityStop(backfill), "ok")
    ELSE ServiceOutcome(backfill, "BackfillStopError")

\* a call of the service on the entity
ServiceCall(call, op) ==
    /\ entity' = call.entity
    /\ result' = Result(op, "none", "none", NoWorker, call.out)
    /\ UNCHANGED <<now, table, leases, thr, desired, alive, index, backup, sessions>>

StartBackfill == \E impl \in ImplOutcomes : ServiceCall(start_backfill(entity, impl), "start_backfill")

StopBackfill == \E impl \in ImplOutcomes : ServiceCall(stop_backfill(entity, impl), "stop_backfill")

\* the status of the entity is set from outside the service: tests and
\* from_dict assign any status and state; complete() is called by
\* get_backfill_status
AssignStatus ==
    \E status \in BackfillStatuses, state \in BackfillStates :
        ServiceCall(ServiceOutcome([ entity EXCEPT !.status = status, !.state = state ], "ok"),
                    "assign")

CompleteBackfill == ServiceCall(ServiceOutcome(EntityComplete(entity), "ok"), "complete")

NextService ==
    \/ StartBackfill
    \/ StopBackfill
    \/ AssignStatus
    \/ CompleteBackfill

SpecService == Init /\ [][NextService]_vars

\* C40: the start/stop guards of the backfill entity. start_backfill is
\* refused with BackfillAlreadyRunningError unless the entity's status is
\* NOT_STARTED or STOPPED, and stop_backfill is refused with
\* BackfillNotRunningError unless its status is STARTING or RUNNING; a refused
\* call leaves the entity unchanged; in every reachable state can_start and
\* can_stop are not both true.
C40_StartStopGuards ==
    /\ ~(can_start(entity) /\ can_stop(entity))
    /\ \A impl \in ImplOutcomes :
          LET started == start_backfill(entity, impl)
              stopped == stop_backfill(entity, impl)
          IN  /\ started.out = "BackfillAlreadyRunningError"
                    <=> entity.status \notin {"NOT_STARTED", "STOPPED"}
              /\ started.out = "BackfillAlreadyRunningError" => started.entity = entity
              /\ stopped.out = "BackfillNotRunningError"
                    <=> entity.status \notin {"STARTING", "RUNNING"}
              /\ stopped.out = "BackfillNotRunningError" => stopped.entity = entity

\* C40 witness: a backfill that was started and is running has refused a
\* second start
C40_Witness ==
    /\ result.op = "start_backfill"
    /\ result.out = "BackfillAlreadyRunningError"
    /\ entity.status = "RUNNING"
    /\ entity.started_at

====
